---- MODULE Spec2Model ----
(***************************************************************************)
(* Booking core of Evently: the booking-creation saga over the fast store  *)
(* (Redis soft reservations) and the durable store (PostgreSQL bookings    *)
(* and seats), and the confirm / cancel lifecycle with inline expiration.  *)
(*                                                                         *)
(* Time is counted in minutes and the clock advances in quanta of          *)
(* TickMinutes.  A worker (Procs) serves one request at a time; between    *)
(* two awaits of a handler any other worker may run, so                    *)
(* every action below is one await-free stretch of a handler (or one       *)
(* atomic Lua script / one durable transaction).                           *)
(***************************************************************************)
EXTENDS Integers, Sequences, FiniteSets, TLC

\* ---------------------------------------------------------------- bounds
NumSeats == 2
NumProcs == 2
MaxBookings == 2
MaxOps == 1
MaxLifeOps == 3
MaxFastCalls == 3
MaxTicks == 2
MaxFaults == 1
MaxEventCreates == 1
NumResources == 2
MaxLockCalls == 3
MaxRateCalls == 7
NumSagas == 2
MaxSteps == 3
MaxStepRetries == 2
NumCallers == 4
MaxBreakerCalls == 10
MaxReads == 3
MaxMutations == 2
MaxSagaRuns == 4
MaxTrackedOps == 4

\* ------------------------------------------------------- program constants
BOOKING_EXPIRATION_MINUTES == 5
ReservationTtlSeconds == 600
RedisStepMaxRetries == 2
DbStepMaxRetries == 1
CancellationWindowHours == 24
BookingRateLimit == 5
BookingRateWindowSeconds == 60
FailureThreshold == 5
RecoveryTimeoutSeconds == 60
LockTtlSeconds == 300
TestRateLimit == 2
HalfOpenMaxCalls == 3
EventsCacheTtlSeconds == 300

\* the model counts time in minutes
Minutes(seconds) == seconds \div 60
ReservationTtl == Minutes(ReservationTtlSeconds)
BookingRateWindow == Minutes(BookingRateWindowSeconds)
RecoveryTimeout == Minutes(RecoveryTimeoutSeconds)
LockTtl == Minutes(LockTtlSeconds)
\* the ttl arguments of the lock calls: the default and twice the default
LockTtls == {LockTtl, 2 * LockTtl}
TickMinutes == BOOKING_EXPIRATION_MINUTES
MaxTime == MaxTicks * TickMinutes
CancellationWindow == CancellationWindowHours * 60
\* start_time of the event row: more than the cancellation window away
\* for the whole run
FarEventStart == MaxTime + CancellationWindow + TickMinutes
NearEventStart == CancellationWindow + TickMinutes

Seats == 1..NumSeats
Procs == 1..NumProcs
Users == {"u1", "u2"}
\* "E1" is a row of the events table; "E0" is an id no row carries.
Events == {"E1", "E0"}
ExistingEvents == {"E1"}
BookingIds == 1..MaxBookings
\* EventStatus
EventStatuses == {"upcoming", "ongoing", "completed", "cancelled"}

Price(s) == 50 * (s + 1)

None == "none"
Null == -1
NoKey == [holder |-> None, exp |-> 0, by |-> 0]
NoResp == [code |-> 0, error_type |-> None, seats |-> {}, booking |-> 0, status |-> None]
NoResult == [booking_id |-> 0, total_amount |-> 0, expires_at |-> 0, seat_count |-> 0]
\* what is known of a rate-limit key from the calls made on it: the limit
\* and window its caller uses, the time of the first call of the current
\* window, the calls answered by the store since, the last count the store
\* answered, the windows begun, whether a call was ever answered limited
NoReport == [limit |-> 0, window |-> 0, first |-> Null, calls |-> 0, count |-> 0,
             windows |-> 0, was_limited |-> FALSE]
NoRet == [n |-> 0, op |-> None, user |-> None, event |-> None, seat_ids |-> << >>,
          raised |-> FALSE, ok |-> FALSE, seats |-> {}, count |-> 0,
          resource |-> 0, granted |-> {},
          reported |-> [k \in Users |-> NoReport]]
IdleReq == [op |-> None, user |-> None, event |-> None, seat_ids |-> << >>, booking |-> 0,
            at |-> Null, call |-> 0]
ClosedBreaker ==
    [state |-> "CLOSED", failure_count |-> 0, half_open_calls |-> 0, last_failure_time |-> Null]
NoSaga ==
    [status |-> None, error |-> None, step_error |-> None, error_seats |-> {},
     booking_result |-> NoResult, merged_result |-> NoResult,
     step_status |-> <<"pending", "pending">>, retry_count |-> <<0, 0>>,
     step_result |-> 0, comp_failed |-> FALSE]

\* ------------------------------------------------------ saga records
SagaIds == 1..NumSagas
SagaStatuses == {"started", "executing", "completed", "failed", "compensating", "compensated"}
\* no exception; the exception of attempt a of step k's action is <<k, a>>
NoError == << >>
StepError(k, a) == <<k, a>>
\* SagaStep as add_step builds it
SagaStep(max_retries) ==
    [status |-> "pending", retry_count |-> 0, error |-> NoError, max_retries |-> max_retries]
\* SagaTransaction as create_saga builds it, with its steps
SagaTransaction(id, retries) ==
    [saga_id |-> id, status |-> "started", error |-> NoError, completed_at |-> Null,
     steps |-> [k \in 1..Len(retries) |-> SagaStep(retries[k])]]
NoTxn == [saga_id |-> 0, status |-> None, error |-> NoError, completed_at |-> Null, steps |-> << >>]
\* the locals of execute_saga and what it returned; calls is the list of
\* the step actions and compensations invoked, each with its outcome
NoExec == [pc |-> None, step |-> 0, attempt |-> 0, executed_steps |-> << >>, comp |-> 0,
           returned |-> None, calls |-> << >>]
\* a row of saga_states
NoRow == [status |-> None, error_message |-> NoError, completed_at |-> Null, completed_steps |-> 0]

VARIABLES
    now,        \* the wall clock (datetime.now / Redis key expiry), minutes
    eventStart, \* start_time of the event row E1
    eventStatus, \* status of the event row E1
    seats,      \* seats table of event E1: status, reserved_by, reserved_at
    bookings,   \* bookings table with its booking_seats rows, in insertion order
    rowLock,    \* SELECT ... FOR UPDATE lock on a booking row: holder or 0
    fast,       \* fast store: seat:reserved:<event>:<seat> -> holder, expiry
    redisUp,    \* whether the fast store answers (PING / EVAL succeed)
    faults,     \* fast-store outages injected so far
    circuit_breaker, \* RedisManager.circuit_breaker: state and counters
    rate,       \* fast store: rate:<key> sorted set, the recorded timestamps
    pc,         \* where each worker's handler is suspended
    req,        \* the request a worker is serving (or served last)
    saga,       \* the worker's SagaTransaction (in-memory)
    resp,       \* the HTTP response of the worker's last finished request
    ret,        \* what the last direct RedisManager call returned
    ncreate,    \* CreateBooking calls the run may still start
    nops,       \* confirm / cancel calls the run may still start
    txn,        \* the SagaTransaction a SagaOrchestrator is executing
    exec,       \* execute_saga: its position, executed_steps, return value
    saga_states \* the saga_states table: the rows written by _persist_saga_state

vars == <<now, eventStart, eventStatus, seats, bookings, rowLock, fast, redisUp, faults, circuit_breaker, rate, pc, req, saga, resp, ret, ncreate, nops, txn, exec, saga_states>>

\* no saga assembled, no row persisted
IdleOrchestrator ==
    /\ txn = NoTxn
    /\ exec = NoExec
    /\ saga_states = [id \in SagaIds |-> NoRow]

\* ------------------------------------------------------------- helpers
Range(q) == {q[i] : i \in 1..Len(q)}

RECURSIVE SetToSortedSeq(_)
SetToSortedSeq(S) ==
    IF S = {} THEN << >>
    ELSE LET m == CHOOSE x \in S : \A y \in S : x <= y
         IN <<m>> \o SetToSortedSeq(S \ {m})

\* sorted(seat_ids)
Sorted(ids) == SetToSortedSeq(Range(ids))

RECURSIVE SumPrice(_)
SumPrice(S) ==
    IF S = {} THEN 0
    ELSE LET s == CHOOSE x \in S : TRUE IN Price(s) + SumPrice(S \ {s})

\* seat-id lists a validated request can carry: non-empty, no duplicates
SeatLists ==
    {q \in UNION {[1..n -> Seats] : n \in 1..NumSeats} :
        \A i, j \in 1..Len(q) : i # j => q[i] # q[j]}

Key(e, s) == <<e, s>>
Keys == Events \X Seats
\* seat:reserved:<event>:<seat>:meta, the hash kept beside each key
MetaKey(k) == <<k[1], k[2], "meta">>
BaseKey(k) == <<k[1], k[2]>>
\* lock:<resource> and lock:<resource>:meta
Resources == 1..NumResources
LockKey(r) == <<"lock", r>>
LockKeys == {LockKey(r) : r \in Resources}
StoreKeys == (Keys \cup LockKeys) \cup {MetaKey(k) : k \in Keys \cup LockKeys}

\* ------------------------------------------------- fast store: Lua scripts
\* (variant: the script stops looking after the first key)
ReserveFailedSeatsFirstKey(f, e, ids) == {s \in {ids[1]} : f[Key(e, s)] # NoKey}
\* reserve_seats: the Lua script, run atomically by the store
ReserveFailedSeats(f, e, ids) == {s \in Range(ids) : f[Key(e, s)] # NoKey}

\* (by: the CreateBooking call that set the key, 0 for a direct call; the
\* store itself keeps the holder and the expiry only)
ReserveScript(f, e, ids, u, ttl, t, p) ==
    LET failed == ReserveFailedSeats(f, e, ids) IN
    IF failed # {}
    THEN [ok |-> FALSE, seats |-> failed, store |-> f]
    ELSE [ok |-> TRUE, seats |-> Range(ids),
          store |-> [k \in StoreKeys |->
                        IF k[1] = e /\ k[2] \in Range(ids)
                        THEN [holder |-> u, exp |-> t + ttl, by |-> p]
                        ELSE f[k]]]

\* (variant: the script stops after the first key it deletes)
ReleasedKeysFirstOnly(f, e, ids, u) ==
    LET own == {k \in Keys : k[1] = e /\ k[2] \in Range(ids) /\ f[k] # NoKey /\ f[k].holder = u}
    IN {k \in own : \A j \in own : k[2] <= j[2]}
\* (variant: the script deletes nothing)
ReleasedKeysNone(f, e, ids, u) == {}
\* release_seat_reservations: the Lua script
ReleasedKeys(f, e, ids, u) ==
    {k \in Keys : k[1] = e /\ k[2] \in Range(ids) /\ f[k] # NoKey /\ f[k].holder = u}

ReleaseScript(f, e, ids, u) ==
    [count |-> Cardinality(ReleasedKeys(f, e, ids, u)),
     store |-> [k \in StoreKeys |->
                   IF BaseKey(k) \in ReleasedKeys(f, e, ids, u) THEN NoKey ELSE f[k]]]

\* extend_seat_reservations: the pipeline, per seat an EXPIRE of the key
\* guarded by its owner and an EXPIRE of the meta key
ExtendedKeys(f, e, ids, u) ==
    {k \in Keys : k[1] = e /\ k[2] \in Range(ids) /\ f[k] # NoKey /\ f[k].holder = u}
ExpiredMetaKeys(f, e, ids) ==
    {MetaKey(Key(e, s)) : s \in {x \in Range(ids) : f[MetaKey(Key(e, x))] # NoKey}}

ExtendPipeline(f, e, ids, u, ttl, t) ==
    [count |-> Cardinality(ExtendedKeys(f, e, ids, u)),
     store |-> [k \in StoreKeys |->
                   IF k \in ExtendedKeys(f, e, ids, u) \cup ExpiredMetaKeys(f, e, ids)
                   THEN [f[k] EXCEPT !.exp = t + ttl]
                   ELSE f[k]]]

\* acquire_lock's script: SET NX EX, then the metadata hash with the same ttl
AcquireScript(f, r, id, ttl, t) ==
    IF f[LockKey(r)] = NoKey
    THEN [ok |-> TRUE,
          store |-> [f EXCEPT ![LockKey(r)] = [holder |-> id, exp |-> t + ttl, by |-> 0],
                              ![MetaKey(LockKey(r))] = [holder |-> id, exp |-> t + ttl, by |-> 0]]]
    ELSE [ok |-> FALSE, store |-> f]

\* (variant: a check that the lock exists, whoever owns it)
LockOwnedAny(f, r, id) == f[LockKey(r)] # NoKey
\* the owner check of the release and extend scripts
LockOwned(f, r, id) == f[LockKey(r)] # NoKey /\ f[LockKey(r)].holder = id

\* release_lock's script: DEL of the key and its metadata
ReleaseLockScript(f, r, id) ==
    IF LockOwned(f, r, id)
    THEN [ok |-> TRUE,
          store |-> [f EXCEPT ![LockKey(r)] = NoKey, ![MetaKey(LockKey(r))] = NoKey]]
    ELSE [ok |-> FALSE, store |-> f]

\* extend_lock's script: EXPIRE of the key, HSET and EXPIRE of its metadata
ExtendLockScript(f, r, id, ttl, t) ==
    IF LockOwned(f, r, id)
    THEN [ok |-> TRUE,
          store |-> [f EXCEPT ![LockKey(r)].exp = t + ttl,
                              ![MetaKey(LockKey(r))] = [holder |-> id, exp |-> t + ttl, by |-> 0]]]
    ELSE [ok |-> FALSE, store |-> f]

\* Redis drops a key once its EX / EXPIRE time is reached
ExpireKeys(f, t) == [k \in StoreKeys |-> IF f[k] # NoKey /\ f[k].exp <= t THEN NoKey ELSE f[k]]

\* (variant: no entry is ever removed)
RatePrunedNone(z, window, t) == z
\* is_rate_limited: the Lua script over the sorted set z of timestamps
RatePruned(z, window, t) == SelectSeq(z, LAMBDA x : x > t - window)

\* (variant: a limited call reports no count)
RateLimitScriptNoCount(z, limit, window, t) ==
    LET kept == RatePruned(z, window, t) IN
    IF Len(kept) < limit
    THEN [limited |-> FALSE, count |-> Len(kept) + 1, store |-> Append(kept, t)]
    ELSE [limited |-> TRUE, count |-> 0, store |-> kept]

RateLimitScript(z, limit, window, t) ==
    LET kept == RatePruned(z, window, t) IN
    IF Len(kept) < limit
    THEN [limited |-> FALSE, count |-> Len(kept) + 1, store |-> Append(kept, t)]
    ELSE [limited |-> TRUE, count |-> Len(kept), store |-> kept]

\* ------------------------------------------------------- circuit breaker
\* CircuitBreaker.is_open: open, and the recovery timeout not yet over
IsOpen(c, t) == c.state = "OPEN" /\ t - c.last_failure_time < RecoveryTimeout

\* what is_open leaves behind: an open breaker past its timeout is half-open
AfterIsOpen(c, t) ==
    IF c.state = "OPEN" /\ ~IsOpen(c, t)
    THEN [c EXCEPT !.state = "HALF_OPEN", !.half_open_calls = 0]
    ELSE c

\* (variant: a success leaves failure_count as it is)
RecordSuccessKeepCount(c) == [c EXCEPT !.half_open_calls = 0, !.state = "CLOSED"]

record_success(c) == [c EXCEPT !.failure_count = 0, !.half_open_calls = 0, !.state = "CLOSED"]

record_failure(c, t) ==
    [c EXCEPT !.failure_count = c.failure_count + 1,
              !.last_failure_time = t,
              !.half_open_calls = 0,
              !.state = IF c.state = "HALF_OPEN" \/ c.failure_count + 1 >= FailureThreshold
                        THEN "OPEN" ELSE c.state]

\* CircuitBreaker.call around a function that succeeds (ok) or throws; the
\* wrapped call is one await, taken here in one piece
BreakerCall(c, t, ok) ==
    IF IsOpen(c, t) THEN c
    ELSE IF ok THEN record_success(AfterIsOpen(c, t))
    ELSE record_failure(AfterIsOpen(c, t), t)

\* get_client: the ping through the breaker, and once more after reconnecting
GetClient(c, t, up) ==
    IF up /\ ~IsOpen(c, t) THEN BreakerCall(c, t, TRUE)
    ELSE BreakerCall(BreakerCall(c, t, up), t, up)

\* Outcomes of one RedisManager call.  "raise": get_client() cannot ping the
\* store and raises, outside the method's try.  "run": the script runs.
\* "caught": the store fails between the ping and the eval, inside the try.
\* With the breaker open get_client() raises as well, whatever the store does.
CallOutcomes == IF redisUp /\ ~IsOpen(circuit_breaker, now) THEN {"run", "caught"} ELSE {"raise"}
OutcomeAllowed(o) == o \in CallOutcomes /\ (o = "caught" => faults < MaxFaults)
UpAfter(o) == IF o = "caught" THEN FALSE ELSE redisUp
FaultsAfter(o) == IF o = "caught" THEN faults + 1 ELSE faults
\* the breaker after get_client and, if it returned, the EVAL through the breaker
BreakerAfter(o) ==
    LET pinged == GetClient(circuit_breaker, now, redisUp) IN
    CASE o = "run" -> BreakerCall(pinged, now, TRUE)
      [] o = "caught" -> BreakerCall(pinged, now, FALSE)
      [] OTHER -> pinged

\* ------------------------------------------------------------ type / init
Init ==
    /\ now = 0
    /\ eventStart = FarEventStart
    /\ eventStatus = "upcoming"
    /\ seats = [s \in Seats |-> [status |-> "available", reserved_by |-> None, reserved_at |-> Null]]
    /\ bookings = << >>
    /\ rowLock = [b \in BookingIds |-> 0]
    /\ fast = [k \in StoreKeys |-> NoKey]
    /\ redisUp = TRUE
    /\ faults = 0
    /\ circuit_breaker = ClosedBreaker
    /\ rate = [u \in Users |-> << >>]
    /\ pc = [p \in Procs |-> "idle"]
    /\ req = [p \in Procs |-> IdleReq]
    /\ saga = [p \in Procs |-> NoSaga]
    /\ resp = [p \in Procs |-> NoResp]
    /\ ret = NoRet
    /\ ncreate = MaxBookings
    /\ nops = MaxOps
    /\ IdleOrchestrator

\* ------------------------------------------- error classification (service)
\* The step errors, by the text of the exception the step raises:
\*   "redis_reservation_failed"   "Redis seat reservation failed for seats: [..]"
\*   "redis_unavailable"          the fast-store client's error / "Circuit breaker is open"
\*   "event_not_found"            "Event <id> not found"
\*   "past_event"                 "Cannot book tickets for past or ongoing events"
\*   "seats_no_longer_available"  "Seats no longer available: {..}"
HasNoLongerAvailable(err) == err = "seats_no_longer_available"
HasReservationFailed(err) == err = "redis_reservation_failed"

\* create_booking_atomic's else branch, then create_booking's except clauses
ClassifyFailure(err, errSeats) ==
    IF HasNoLongerAvailable(err)
    THEN [code |-> 409, error_type |-> "seats_unavailable", seats |-> errSeats, booking |-> 0, status |-> None]
    ELSE IF HasReservationFailed(err)
    THEN [code |-> 423, error_type |-> "reservation_failed", seats |-> errSeats, booking |-> 0, status |-> None]
    ELSE [code |-> 500, error_type |-> "booking_creation_failed", seats |-> {}, booking |-> 0, status |-> None]

\* create_booking_atomic's success branch: result['booking_id'] on the value
\* create_booking_saga returned, then the read of the committed booking
SuccessResponse(result) ==
    IF result = NoResult
    THEN [code |-> 500, error_type |-> "internal_error", seats |-> {}, booking |-> 0, status |-> None]
    ELSE [code |-> 200, error_type |-> None,
          seats |-> bookings[result.booking_id].seat_ids, booking |-> result.booking_id, status |-> None]

\* A request is handed to the first idle worker.
Dispatch(p) == pc[p] = "idle" /\ \A q \in Procs : q < p => pc[q] # "idle"

\* ------------------------------------------------------- CreateBooking
\* POST /bookings: the rate-limit check, then the saga is assembled and
\* execute_saga marks it executing.
CreateBooking(p, u, e, ids) ==
    /\ Dispatch(p)
    /\ ncreate > 0
    /\ ncreate' = ncreate - 1
    /\ req' = [req EXCEPT ![p] = [op |-> "create", user |-> u, event |-> e,
                                  seat_ids |-> Sorted(ids), booking |-> 0, at |-> Null,
                                  call |-> ncreate]]
    /\ \E o \in CallOutcomes :
        /\ OutcomeAllowed(o)
        /\ redisUp' = UpAfter(o)
        /\ faults' = FaultsAfter(o)
        /\ circuit_breaker' = BreakerAfter(o)
        /\ LET r == RateLimitScript(rate[u], BookingRateLimit, BookingRateWindow, now) IN
           CASE o = "raise" ->
                \* get_client() raises out of is_rate_limited: except Exception
                /\ rate' = rate
                /\ saga' = [saga EXCEPT ![p] = NoSaga]
                /\ resp' = [resp EXCEPT ![p] = [code |-> 500, error_type |-> "internal_error",
                                                seats |-> {}, booking |-> 0, status |-> None]]
                /\ pc' = pc
             [] o = "run" /\ r.limited ->
                /\ rate' = [rate EXCEPT ![u] = r.store]
                /\ saga' = [saga EXCEPT ![p] = NoSaga]
                /\ resp' = [resp EXCEPT ![p] = [code |-> 429, error_type |-> "rate_limited",
                                                seats |-> {}, booking |-> 0, status |-> None]]
                /\ pc' = pc
             [] OTHER ->
                \* not limited, or the script failed and the check fails open
                /\ rate' = IF o = "run" THEN [rate EXCEPT ![u] = r.store] ELSE rate
                /\ saga' = [saga EXCEPT ![p] = [NoSaga EXCEPT !.status = "executing",
                                                             !.step_status = <<"executing", "pending">>]]
                /\ resp' = [resp EXCEPT ![p] = NoResp]
                /\ pc' = [pc EXCEPT ![p] = "step1"]
    /\ UNCHANGED <<now, eventStart, eventStatus, seats, bookings, rowLock, fast, ret, nops, txn, exec, saga_states>>

\* In the saga record, step_error and error_seats are the error of the step
\* being executed (step.error, the seats its message names); error is
\* saga.error, set when a step has failed for good.
\* The saga ends in failure with no completed step left to compensate:
\* status failed, compensating, compensated; then the service classifies.
FailedSaga(sg, err, errSeats, k, n) ==
    [sg EXCEPT !.status = "compensated", !.error = err, !.step_error = err,
               !.error_seats = errSeats, !.step_status[k] = "failed", !.retry_count[k] = n]

\* A failed attempt that is retried after the back-off sleep.
RetriedSaga(sg, err, errSeats, k, n) ==
    [sg EXCEPT !.step_error = err, !.error_seats = errSeats, !.retry_count[k] = n]

\* Step 1, one attempt: _reserve_seats_redis -> RedisManager.reserve_seats
ReserveSeatsRedis(p) ==
    /\ pc[p] = "step1"
    /\ \E o \in CallOutcomes :
        /\ OutcomeAllowed(o)
        /\ redisUp' = UpAfter(o)
        /\ faults' = FaultsAfter(o)
        /\ circuit_breaker' = BreakerAfter(o)
        /\ LET r == ReserveScript(fast, req[p].event, req[p].seat_ids, req[p].user,
                                  ReservationTtl, now, req[p].call)
               n == saga[p].retry_count[1] + 1
               err == IF o = "raise" THEN "redis_unavailable" ELSE "redis_reservation_failed"
               errSeats == CASE o = "raise" -> {}
                             [] o = "caught" -> Range(req[p].seat_ids)
                             [] OTHER -> r.seats
           IN
           IF o = "run" /\ r.ok
           THEN /\ fast' = r.store
                /\ saga' = [saga EXCEPT ![p].step_status[1] = "completed",
                                        ![p].step_status[2] = "executing",
                                        ![p].step_error = None,
                                        ![p].error_seats = {}]
                /\ pc' = [pc EXCEPT ![p] = "step2"]
                /\ resp' = resp
           ELSE /\ fast' = fast
                /\ IF saga[p].retry_count[1] < RedisStepMaxRetries
                   THEN /\ saga' = [saga EXCEPT ![p] = RetriedSaga(saga[p], err, errSeats, 1, n)]
                        /\ pc' = pc
                        /\ resp' = resp
                   ELSE /\ saga' = [saga EXCEPT ![p] = FailedSaga(saga[p], err, errSeats, 1, n)]
                        /\ pc' = [pc EXCEPT ![p] = "idle"]
                        /\ resp' = [resp EXCEPT ![p] = ClassifyFailure(err, errSeats)]
    /\ UNCHANGED <<now, eventStart, eventStatus, seats, bookings, rowLock, rate, req, ret, ncreate, nops, txn, exec, saga_states>>

\* (variant: without the seat-status check)
DbCheckNoSeatCheck(e, ids, t) ==
    IF e \notin ExistingEvents THEN [err |-> "event_not_found", seats |-> {}]
    ELSE IF eventStart <= t THEN [err |-> "past_event", seats |-> {}]
    ELSE [err |-> None, seats |-> {}]
\* Step 2's transaction body: the checks of _create_booking_db, in order
DbCheck(e, ids, t) ==
    LET unavailable == {s \in Range(ids) : seats[s].status # "available"} IN
    IF e \notin ExistingEvents THEN [err |-> "event_not_found", seats |-> {}]
    ELSE IF eventStart <= t THEN [err |-> "past_event", seats |-> {}]
    ELSE IF unavailable # {} THEN [err |-> "seats_no_longer_available", seats |-> unavailable]
    ELSE [err |-> None, seats |-> {}]

NewBooking(u, e, ids, t) ==
    [user |-> u, event |-> e, status |-> "pending", total_amount |-> SumPrice(Range(ids)),
     expires_at |-> t + BOOKING_EXPIRATION_MINUTES, confirmed_at |-> Null,
     cancelled_at |-> Null, seat_ids |-> Range(ids)]

BookingSummary(id, b) ==
    [booking_id |-> id, total_amount |-> b.total_amount, expires_at |-> b.expires_at,
     seat_count |-> Cardinality(b.seat_ids)]

\* Where _create_booking_db stores the summary: context['booking_result'] of
\* the dict it was handed, which _execute_step built as
\* {**saga.context, **step.context}, a copy of the saga's context.
StoreBookingResult(sg, summary) == [sg EXCEPT !.merged_result = summary]

\* Step 2, one attempt: the body of the durable transaction and its commit;
\* on success the saga completes and the service answers.
DbTransaction(p) ==
    /\ pc[p] = "step2"
    /\ LET chk == DbCheck(req[p].event, req[p].seat_ids, now)
           n == saga[p].retry_count[2] + 1
           id == Len(bookings) + 1
           b == NewBooking(req[p].user, req[p].event, req[p].seat_ids, now)
       IN
       IF chk.err = None
       THEN /\ bookings' = Append(bookings, b)
            /\ seats' = [s \in Seats |->
                            IF s \in b.seat_ids
                            THEN [status |-> "reserved", reserved_by |-> req[p].user, reserved_at |-> now]
                            ELSE seats[s]]
            /\ saga' = [saga EXCEPT ![p] =
                            [StoreBookingResult(saga[p], BookingSummary(id, b))
                                EXCEPT !.status = "completed", !.step_status[2] = "completed",
                                       !.step_result = id]]
            /\ resp' = [resp EXCEPT ![p] = SuccessResponse(saga'[p].booking_result)]
            /\ pc' = [pc EXCEPT ![p] = "idle"]
       ELSE /\ UNCHANGED <<bookings, seats>>
            /\ IF saga[p].retry_count[2] < DbStepMaxRetries
               THEN /\ saga' = [saga EXCEPT ![p] = RetriedSaga(saga[p], chk.err, chk.seats, 2, n)]
                    /\ pc' = pc
                    /\ resp' = resp
               ELSE /\ saga' = [saga EXCEPT ![p] =
                                    [saga[p] EXCEPT !.status = "compensating", !.error = chk.err,
                                                    !.step_error = chk.err,
                                                    !.error_seats = chk.seats,
                                                    !.step_status[2] = "failed", !.retry_count[2] = n]]
                    /\ pc' = [pc EXCEPT ![p] = "compensate"]
                    /\ resp' = resp
    /\ UNCHANGED <<now, eventStart, eventStatus, fast, redisUp, faults, circuit_breaker, rate, req, ret, ncreate, nops, txn, exec, saga_states>>

\* Step 2 in one piece: the row locks are taken and given back within it
CreateBookingDb(p) ==
    /\ DbTransaction(p)
    /\ UNCHANGED rowLock

\* Compensation of step 1: _release_seats_redis -> release_seat_reservations;
\* an exception is logged by _compensate_step and the saga still ends
\* compensated; then the service classifies the saga's error.
CompensateStep(sg, o) ==
    [sg EXCEPT !.status = "compensated",
               !.step_status[1] = IF o = "raise" THEN "compensating" ELSE "compensated",
               !.comp_failed = (o # "run")]

ReleaseSeatsRedis(p) ==
    /\ pc[p] = "compensate"
    /\ \E o \in CallOutcomes :
        /\ OutcomeAllowed(o)
        /\ redisUp' = UpAfter(o)
        /\ faults' = FaultsAfter(o)
        /\ circuit_breaker' = BreakerAfter(o)
        /\ fast' = IF o = "run"
                   THEN ReleaseScript(fast, req[p].event, req[p].seat_ids, req[p].user).store
                   ELSE fast
        /\ saga' = [saga EXCEPT ![p] = CompensateStep(saga[p], o)]
    /\ resp' = [resp EXCEPT ![p] = ClassifyFailure(saga[p].error, saga[p].error_seats)]
    /\ pc' = [pc EXCEPT ![p] = "idle"]
    /\ UNCHANGED <<now, eventStart, eventStatus, seats, bookings, rowLock, rate, req, ret, ncreate, nops, txn, exec, saga_states>>

\* ------------------------------------------------------- confirm / cancel
Resp(code, etype, b) == [code |-> code, error_type |-> etype, seats |-> {}, booking |-> b, status |-> None]

\* (variant: the select does not filter on the owner)
BookingRowAnyUser(b, u, statuses) ==
    /\ b <= Len(bookings)
    /\ bookings[b].status \in statuses
\* the row the handlers' SELECT ... FOR UPDATE returns: id, owner, status
BookingRow(b, u, statuses) ==
    /\ b <= Len(bookings)
    /\ bookings[b].user = u
    /\ bookings[b].status \in statuses

ConfirmWhere(b, u) == BookingRow(b, u, {"pending"})
\* (variant: the select does not filter on the status)
CancelWhereAnyStatus(b, u) == BookingRow(b, u, {"pending", "confirmed", "cancelled", "expired"})
CancelWhere(b, u) == BookingRow(b, u, {"pending", "confirmed"})

\* (variant: the handler never looks at the clock)
IsExpiredNever(t, expires_at) == FALSE
\* confirm_booking: "if current_time > booking.expires_at"
IsExpired(t, expires_at) == t > expires_at

\* (variant: the holder fields are left as they are)
ReleasedSeatsKeepHolder(b) ==
    [s \in Seats |-> IF s \in bookings[b].seat_ids
                     THEN [seats[s] EXCEPT !.status = "available"]
                     ELSE seats[s]]
ReleasedSeats(b) ==
    [s \in Seats |-> IF s \in bookings[b].seat_ids
                     THEN [status |-> "available", reserved_by |-> None, reserved_at |-> Null]
                     ELSE seats[s]]

BookedSeats(b) ==
    [s \in Seats |-> IF s \in bookings[b].seat_ids
                     THEN [seats[s] EXCEPT !.status = "booked"]
                     ELSE seats[s]]

OpRequest(op, u, b) ==
    [op |-> op, user |-> u, event |-> IF b <= Len(bookings) THEN bookings[b].event ELSE None,
     seat_ids |-> IF b <= Len(bookings) THEN SetToSortedSeq(bookings[b].seat_ids) ELSE << >>,
     booking |-> b, at |-> Null, call |-> 0]

\* datetime.now() as the handler writes it to confirmed_at / cancelled_at,
\* kept in the session until the commit
Staged(r, staged, t) == [r EXCEPT !.at = IF staged THEN t ELSE Null]
Unstaged(r) == [r EXCEPT !.at = Null]

\* POST /bookings/{id}/confirm: the locking select, the expiry check and,
\* for an expired booking, the inline expiration with its commit.
ConfirmBooking(p, u, b) ==
    /\ Dispatch(p)
    /\ nops > 0
    /\ nops' = nops - 1
    /\ ConfirmWhere(b, u) => rowLock[b] = 0
    /\ saga' = [saga EXCEPT ![p] = NoSaga]
    /\ IF ~ConfirmWhere(b, u)
       THEN /\ resp' = [resp EXCEPT ![p] = Resp(404, "not_found", b)]
            /\ UNCHANGED <<bookings, seats, rowLock, pc>>
       ELSE IF IsExpired(now, bookings[b].expires_at)
       THEN /\ bookings' = [bookings EXCEPT ![b].status = "expired"]
            /\ seats' = ReleasedSeats(b)
            /\ resp' = [resp EXCEPT ![p] = Resp(410, "booking_expired", b)]
            /\ UNCHANGED <<rowLock, pc>>
       ELSE /\ rowLock' = [rowLock EXCEPT ![b] = p]
            /\ pc' = [pc EXCEPT ![p] = "confirm_release"]
            /\ resp' = [resp EXCEPT ![p] = NoResp]
            /\ UNCHANGED <<bookings, seats>>
    /\ req' = [req EXCEPT ![p] = Staged(OpRequest("confirm", u, b), ConfirmWhere(b, u), now)]
    /\ UNCHANGED <<now, eventStart, eventStatus, fast, redisUp, faults, circuit_breaker, rate, ret, ncreate, txn, exec, saga_states>>

\* (variant: without the 24-hour rule)
CancellationNeverClosed(b, t) == FALSE
\* cancel_booking: the 24-hour rule for a confirmed booking
CancellationClosed(b, t) ==
    bookings[b].status = "confirmed" /\ t > eventStart - CancellationWindow

\* POST /bookings/{id}/cancel: the locking select and the policy check.
CancelBooking(p, u, b) ==
    /\ Dispatch(p)
    /\ nops > 0
    /\ nops' = nops - 1
    /\ CancelWhere(b, u) => rowLock[b] = 0
    /\ saga' = [saga EXCEPT ![p] = NoSaga]
    /\ IF ~CancelWhere(b, u)
       THEN /\ resp' = [resp EXCEPT ![p] = Resp(404, "not_found", b)]
            /\ UNCHANGED <<rowLock, pc>>
       ELSE IF CancellationClosed(b, now)
       THEN /\ resp' = [resp EXCEPT ![p] = Resp(400, "cancellation_window_closed", b)]
            /\ UNCHANGED <<rowLock, pc>>
       ELSE /\ rowLock' = [rowLock EXCEPT ![b] = p]
            /\ pc' = [pc EXCEPT ![p] = "cancel_release"]
            /\ resp' = [resp EXCEPT ![p] = NoResp]
    /\ req' = [req EXCEPT ![p] = Staged(OpRequest("cancel", u, b),
                                        CancelWhere(b, u) /\ ~CancellationClosed(b, now), now)]
    /\ UNCHANGED <<now, eventStart, eventStatus, bookings, seats, fast, redisUp, faults, circuit_breaker, rate, ret, ncreate, txn, exec, saga_states>>

\* The fast-store release both handlers issue inside their transaction,
\* before it commits; an exception out of it rolls the transaction back.
ReleaseInTransaction(p) ==
    /\ pc[p] \in {"confirm_release", "cancel_release"}
    /\ \E o \in CallOutcomes :
        /\ OutcomeAllowed(o)
        /\ redisUp' = UpAfter(o)
        /\ faults' = FaultsAfter(o)
        /\ circuit_breaker' = BreakerAfter(o)
        /\ IF o = "raise"
           THEN /\ rowLock' = [rowLock EXCEPT ![req[p].booking] = 0]
                /\ resp' = [resp EXCEPT ![p] = Resp(500, "internal_error", req[p].booking)]
                /\ pc' = [pc EXCEPT ![p] = "idle"]
                /\ req' = [req EXCEPT ![p] = Unstaged(req[p])]
                /\ fast' = fast
           ELSE /\ fast' = IF o = "run"
                           THEN ReleaseScript(fast, req[p].event, req[p].seat_ids, req[p].user).store
                           ELSE fast
                /\ pc' = [pc EXCEPT ![p] = IF pc[p] = "confirm_release"
                                           THEN "confirm_commit" ELSE "cancel_commit"]
                /\ UNCHANGED <<rowLock, resp, req>>
    /\ UNCHANGED <<now, eventStart, eventStatus, seats, bookings, rate, saga, ret, ncreate, nops, txn, exec, saga_states>>

\* The commit of a valid confirm.
ConfirmCommit(p) ==
    /\ pc[p] = "confirm_commit"
    /\ LET b == req[p].booking IN
        /\ bookings' = [bookings EXCEPT ![b].status = "confirmed", ![b].confirmed_at = req[p].at]
        /\ seats' = BookedSeats(b)
        /\ rowLock' = [rowLock EXCEPT ![b] = 0]
        /\ resp' = [resp EXCEPT ![p] = Resp(200, None, b)]
    /\ pc' = [pc EXCEPT ![p] = "idle"]
    /\ req' = [req EXCEPT ![p] = Unstaged(req[p])]
    /\ UNCHANGED <<now, eventStart, eventStatus, fast, redisUp, faults, circuit_breaker, rate, saga, ret, ncreate, nops, txn, exec, saga_states>>

\* The commit of a cancel.
CancelCommit(p) ==
    /\ pc[p] = "cancel_commit"
    /\ LET b == req[p].booking IN
        /\ bookings' = [bookings EXCEPT ![b].status = "cancelled", ![b].cancelled_at = req[p].at]
        /\ seats' = ReleasedSeats(b)
        /\ rowLock' = [rowLock EXCEPT ![b] = 0]
        /\ resp' = [resp EXCEPT ![p] = Resp(200, None, b)]
    /\ pc' = [pc EXCEPT ![p] = "idle"]
    /\ req' = [req EXCEPT ![p] = Unstaged(req[p])]
    /\ UNCHANGED <<now, eventStart, eventStatus, fast, redisUp, faults, circuit_breaker, rate, saga, ret, ncreate, nops, txn, exec, saga_states>>

\* GET /bookings/{id}: the plain select by id and owner, formatted by
\* _format_booking_response; nothing is written.
GetBooking(p, u, b) ==
    /\ Dispatch(p)
    /\ nops > 0
    /\ nops' = nops - 1
    /\ req' = [req EXCEPT ![p] = OpRequest("get", u, b)]
    /\ saga' = [saga EXCEPT ![p] = NoSaga]
    /\ resp' = [resp EXCEPT ![p] =
                    IF BookingRow(b, u, {"pending", "confirmed", "cancelled", "expired"})
                    THEN [Resp(200, None, b) EXCEPT !.status = bookings[b].status,
                                                    !.seats = bookings[b].seat_ids]
                    ELSE Resp(404, "not_found", b)]
    /\ UNCHANGED <<now, eventStart, eventStatus, seats, bookings, rowLock, fast, redisUp, faults, circuit_breaker, rate, pc, ret, ncreate, txn, exec, saga_states>>

\* ------------------------------------------------------------ environment
Tick ==
    /\ now < MaxTime
    /\ now' = now + TickMinutes
    /\ fast' = ExpireKeys(fast, now')
    /\ rate' = [u \in Users |-> RatePruned(rate[u], BookingRateWindow, now')]
    /\ UNCHANGED <<eventStart, eventStatus, seats, bookings, rowLock, redisUp, faults, circuit_breaker, pc, req, saga, resp, ret, ncreate, nops, txn, exec, saga_states>>

RedisDown ==
    /\ redisUp
    /\ faults < MaxFaults
    /\ redisUp' = FALSE
    /\ faults' = faults + 1
    /\ UNCHANGED <<now, eventStart, eventStatus, seats, bookings, rowLock, fast, circuit_breaker, rate, pc, req, saga, resp, ret, ncreate, nops, txn, exec, saga_states>>

RedisRecover ==
    /\ ~redisUp
    /\ redisUp' = TRUE
    /\ UNCHANGED <<now, eventStart, eventStatus, seats, bookings, rowLock, fast, faults, circuit_breaker, rate, pc, req, saga, resp, ret, ncreate, nops, txn, exec, saga_states>>

Next ==
    \/ \E p \in Procs, u \in Users, e \in ExistingEvents, ids \in SeatLists :
            CreateBooking(p, u, e, ids)
    \/ \E p \in Procs : ReserveSeatsRedis(p)
    \/ \E p \in Procs : CreateBookingDb(p)
    \/ \E p \in Procs : ReleaseSeatsRedis(p)
    \/ \E p \in Procs, u \in Users, b \in BookingIds : ConfirmBooking(p, u, b)
    \/ \E p \in Procs, u \in Users, b \in BookingIds : CancelBooking(p, u, b)
    \/ \E p \in Procs : ReleaseInTransaction(p)
    \/ \E p \in Procs : ConfirmCommit(p)
    \/ \E p \in Procs : CancelCommit(p)
    \/ Tick
    \/ RedisDown
    \/ RedisRecover

Spec == Init /\ [][Next]_vars

\* --------------------------------------- the booking lifecycle on its own
\* One committed pending booking of u1, as CreateBooking leaves it at time
\* 0 (row, reserved seats, soft reservations, one rate-limit entry), then
\* only confirm and cancel calls.
PendingSeats(ids) ==
    [s \in Seats |-> IF s \in Range(ids)
                     THEN [status |-> "reserved", reserved_by |-> "u1", reserved_at |-> 0]
                     ELSE [status |-> "available", reserved_by |-> None, reserved_at |-> Null]]

PendingBookingAt(start) ==
    /\ now = 0
    /\ eventStart = start
    /\ eventStatus = "upcoming"
    /\ \E ids \in {Sorted(q) : q \in SeatLists} :
        /\ bookings = <<NewBooking("u1", "E1", ids, 0)>>
        /\ seats = PendingSeats(ids)
        /\ fast = ReserveScript([k \in StoreKeys |-> NoKey], "E1", ids, "u1", ReservationTtl, 0, 1).store
    /\ rowLock = [b \in BookingIds |-> 0]
    /\ redisUp = TRUE
    /\ faults = 0
    /\ circuit_breaker = ClosedBreaker
    /\ rate = [u \in Users |-> IF u = "u1" THEN <<0>> ELSE << >>]
    /\ pc = [p \in Procs |-> "idle"]
    /\ req = [p \in Procs |-> IdleReq]
    /\ saga = [p \in Procs |-> NoSaga]
    /\ resp = [p \in Procs |-> NoResp]
    /\ ret = NoRet
    /\ ncreate = 0
    /\ nops = MaxLifeOps
    /\ IdleOrchestrator

InitLife == PendingBookingAt(FarEventStart)

\* The same with the event starting 24 hours and one clock quantum after
\* the booking was made, so that the cancellation window closes in the run.
InitNear == PendingBookingAt(NearEventStart)

NextLife ==
    \/ \E p \in Procs, u \in Users, b \in BookingIds : ConfirmBooking(p, u, b)
    \/ \E p \in Procs, u \in Users, b \in BookingIds : CancelBooking(p, u, b)
    \/ \E p \in Procs, u \in Users, b \in BookingIds : GetBooking(p, u, b)
    \/ \E p \in Procs : ReleaseInTransaction(p)
    \/ \E p \in Procs : ConfirmCommit(p)
    \/ \E p \in Procs : CancelCommit(p)
    \/ Tick
    \/ RedisDown
    \/ RedisRecover

SpecLife == InitLife /\ [][NextLife]_vars

SpecNear == InitNear /\ [][NextLife]_vars

\* ------------------------------------- creation against any event row
\* The event row as an admin update may have left it (any status; started,
\* about to start or far off), and requests for it and for the missing E0.
InitEvent ==
    /\ now = 0
    /\ eventStart \in {0, TickMinutes, FarEventStart}
    /\ eventStatus \in EventStatuses
    /\ seats = [s \in Seats |-> [status |-> "available", reserved_by |-> None, reserved_at |-> Null]]
    /\ bookings = << >>
    /\ rowLock = [b \in BookingIds |-> 0]
    /\ fast = [k \in StoreKeys |-> NoKey]
    /\ redisUp = TRUE
    /\ faults = 0
    /\ circuit_breaker = ClosedBreaker
    /\ rate = [u \in Users |-> << >>]
    /\ pc = [p \in Procs |-> "idle"]
    /\ req = [p \in Procs |-> IdleReq]
    /\ saga = [p \in Procs |-> NoSaga]
    /\ resp = [p \in Procs |-> NoResp]
    /\ ret = NoRet
    /\ ncreate = MaxEventCreates
    /\ nops = 0
    /\ IdleOrchestrator

NextEvent ==
    \/ \E p \in Procs, u \in Users, e \in Events, ids \in SeatLists :
            CreateBooking(p, u, e, ids)
    \/ \E p \in Procs : ReserveSeatsRedis(p)
    \/ \E p \in Procs : CreateBookingDb(p)
    \/ \E p \in Procs : ReleaseSeatsRedis(p)
    \/ Tick
    \/ RedisDown
    \/ RedisRecover

SpecEvent == InitEvent /\ [][NextEvent]_vars

\* ------------------------------------------- the fast store on its own
\* Direct calls of RedisManager.reserve_seats and release_seat_reservations
\* with their default TTL; ret records what the last call returned.
reserve_seats(e, ids, u) ==
    /\ ret.n < MaxFastCalls
    /\ \E o \in CallOutcomes :
        /\ OutcomeAllowed(o)
        /\ redisUp' = UpAfter(o)
        /\ faults' = FaultsAfter(o)
        /\ circuit_breaker' = BreakerAfter(o)
        /\ LET r == ReserveScript(fast, e, Sorted(ids), u, ReservationTtl, now, 0) IN
            /\ fast' = IF o = "run" THEN r.store ELSE fast
            /\ ret' = [n |-> ret.n + 1, op |-> "reserve", user |-> u, event |-> e,
                       seat_ids |-> ids, raised |-> (o = "raise"),
                       ok |-> (o = "run" /\ r.ok),
                       seats |-> CASE o = "raise" -> {}
                                   [] o = "caught" -> Range(ids)
                                   [] OTHER -> IF r.ok THEN {} ELSE r.seats,
                       count |-> 0, resource |-> 0, granted |-> ret.granted,
                       reported |-> ret.reported]
    /\ UNCHANGED <<now, eventStart, eventStatus, seats, bookings, rowLock, rate, pc, req, saga, resp, ncreate, nops, txn, exec, saga_states>>

release_seat_reservations(e, ids, u) ==
    /\ ret.n < MaxFastCalls
    /\ \E o \in CallOutcomes :
        /\ OutcomeAllowed(o)
        /\ redisUp' = UpAfter(o)
        /\ faults' = FaultsAfter(o)
        /\ circuit_breaker' = BreakerAfter(o)
        /\ LET r == ReleaseScript(fast, e, ids, u) IN
            /\ fast' = IF o = "run" THEN r.store ELSE fast
            /\ ret' = [n |-> ret.n + 1, op |-> "release", user |-> u, event |-> e,
                       seat_ids |-> ids, raised |-> (o = "raise"),
                       ok |-> (o = "run" /\ r.count = Len(ids)),
                       seats |-> {},
                       count |-> IF o = "run" THEN r.count ELSE 0,
                       resource |-> 0, granted |-> ret.granted,
                       reported |-> ret.reported]
    /\ UNCHANGED <<now, eventStart, eventStatus, seats, bookings, rowLock, rate, pc, req, saga, resp, ncreate, nops, txn, exec, saga_states>>

extend_seat_reservations(e, ids, u) ==
    /\ ret.n < MaxFastCalls
    /\ \E o \in CallOutcomes :
        /\ OutcomeAllowed(o)
        /\ redisUp' = UpAfter(o)
        /\ faults' = FaultsAfter(o)
        /\ circuit_breaker' = BreakerAfter(o)
        /\ LET r == ExtendPipeline(fast, e, ids, u, ReservationTtl, now) IN
            /\ fast' = IF o = "run" THEN r.store ELSE fast
            /\ ret' = [n |-> ret.n + 1, op |-> "extend", user |-> u, event |-> e,
                       seat_ids |-> ids, raised |-> (o = "raise"),
                       ok |-> (o = "run" /\ r.count = Len(ids)),
                       seats |-> {},
                       count |-> IF o = "run" THEN r.count ELSE 0,
                       resource |-> 0, granted |-> ret.granted,
                       reported |-> ret.reported]
    /\ UNCHANGED <<now, eventStart, eventStatus, seats, bookings, rowLock, rate, pc, req, saga, resp, ncreate, nops, txn, exec, saga_states>>

NextFast ==
    \/ \E e \in Events, ids \in SeatLists, u \in Users : reserve_seats(e, ids, u)
    \/ \E e \in Events, ids \in SeatLists, u \in Users : release_seat_reservations(e, ids, u)
    \/ \E e \in Events, ids \in SeatLists, u \in Users : extend_seat_reservations(e, ids, u)
    \/ Tick
    \/ RedisDown
    \/ RedisRecover

SpecFast == Init /\ [][NextFast]_vars

\* =================================================================== claims
ActiveStatuses == {"pending", "confirmed"}
Referencing(s, statuses) ==
    {b \in 1..Len(bookings) : s \in bookings[b].seat_ids /\ bookings[b].status \in statuses}
Held(s) == seats[s].status \in {"reserved", "booked"}
Returned(p) == pc[p] = "idle" /\ resp[p] # NoResp
CreateReturned(p) == Returned(p) /\ req[p].op = "create"

\* C1 (as stated): every seat whose durable status is reserved or booked is
\* referenced by exactly one booking whose status is not cancelled.
C1_ExactlyOneNonCancelled ==
    \A s \in Seats : Held(s) =>
        Cardinality(Referencing(s, {"pending", "confirmed", "expired"})) = 1

\* C1 (amended): no double sell.  Every seat whose durable status is
\* reserved or booked is referenced by exactly one booking that is pending
\* or confirmed, and an available seat by none; expired bookings, like
\* cancelled ones, keep their booking-seat rows and do not count.
C1_NoDoubleSell ==
    \A s \in Seats :
        /\ Held(s) => Cardinality(Referencing(s, ActiveStatuses)) = 1
        /\ seats[s].status = "available" => Referencing(s, ActiveStatuses) = {}

\* C1 witness: a seat sold again after its first booking expired inline.
C1_Witness ==
    \E s \in Seats :
        /\ seats[s].status = "reserved"
        /\ Referencing(s, {"expired"}) # {}
        /\ Referencing(s, {"pending"}) # {}

\* C2: when the booking-creation saga succeeded, the saga context holds the
\* summary of the committed booking and the caller gets that booking as a
\* success.
C2_SuccessReturnsSummary ==
    \A p \in Procs :
        (CreateReturned(p) /\ saga[p].status = "completed") =>
            /\ saga[p].booking_result =
                  BookingSummary(saga[p].step_result, bookings[saga[p].step_result])
            /\ resp[p].code = 200
            /\ resp[p].booking = saga[p].step_result

\* C3: a CreateBooking call that returned an error has committed no booking
\* (and so no booking-seat row and no seat status change).
C3_ErrorLeavesNoBooking ==
    \A p \in Procs :
        (CreateReturned(p) /\ resp[p].code # 200) => saga[p].step_result = 0

\* C4: two different users' concurrent CreateBooking calls for overlapping
\* seats of the event, all seats available before, the fast store up
\* throughout: exactly one succeeds, the other gets 409 seats_unavailable
\* naming an overlapping seat.
Overlap(p, q) == Range(req[p].seat_ids) \cap Range(req[q].seat_ids)
C4_OneWinnerOneSeatsUnavailable ==
    \A p, q \in Procs :
        (/\ p # q
         /\ CreateReturned(p) /\ CreateReturned(q)
         /\ req[p].user # req[q].user
         /\ req[p].event = req[q].event
         /\ Overlap(p, q) # {}
         /\ Len(bookings) <= 1
         /\ faults = 0)
        => \E w, l \in {p, q} :
            /\ w # l
            /\ resp[w].code = 200
            /\ resp[l].code = 409
            /\ resp[l].error_type = "seats_unavailable"
            /\ resp[l].seats \cap Overlap(p, q) # {}

\* the soft reservations a CreateBooking call created that are still there
OwnKeys(p) == {k \in Keys : fast[k] # NoKey /\ fast[k].by = req[p].call}
CreateFailed(p) == CreateReturned(p) /\ saga[p].status = "compensated"

LockCall(op, r, id, result) ==
    /\ ret.n < MaxLockCalls
    /\ \E o \in CallOutcomes :
        /\ OutcomeAllowed(o)
        /\ redisUp' = UpAfter(o)
        /\ faults' = FaultsAfter(o)
        /\ circuit_breaker' = GetClient(circuit_breaker, now, redisUp)
        /\ fast' = IF o = "run" THEN result.store ELSE fast
        /\ ret' = [n |-> ret.n + 1, op |-> op, user |-> id, event |-> None,
                   seat_ids |-> << >>, raised |-> (o = "raise"),
                   ok |-> (o = "run" /\ result.ok),
                   seats |-> {}, count |-> 0, resource |-> r,
                   granted |-> IF op = "acquire_lock" /\ o = "run" /\ result.ok
                               THEN ret.granted \cup {<<r, id>>}
                               ELSE ret.granted,
                   reported |-> ret.reported]
    /\ UNCHANGED <<now, eventStart, eventStatus, seats, bookings, rowLock, rate, pc, req, saga, resp, ncreate, nops, txn, exec, saga_states>>

acquire_lock(r, id, ttl) == LockCall("acquire_lock", r, id, AcquireScript(fast, r, id, ttl, now))
release_lock(r, id) == LockCall("release_lock", r, id, ReleaseLockScript(fast, r, id))
extend_lock(r, id, ttl) == LockCall("extend_lock", r, id, ExtendLockScript(fast, r, id, ttl, now))

NextLock ==
    \/ \E r \in Resources, id \in Users, ttl \in LockTtls : acquire_lock(r, id, ttl)
    \/ \E r \in Resources, id \in Users : release_lock(r, id)
    \/ \E r \in Resources, id \in Users, ttl \in LockTtls : extend_lock(r, id, ttl)
    \/ Tick
    \/ RedisDown
    \/ RedisRecover

SpecLock == Init /\ [][NextLock]_vars

\* ------------------------------------------------ saga orchestrator
TerminalStatuses == {"completed", "failed", "compensated"}
CompletedSteps(t) == Cardinality({k \in 1..Len(t.steps) : t.steps[k].status = "completed"})

\* _persist_saga_state: insert the row, or update the row that exists
PersistSagaState(rows, t, time) ==
    [rows EXCEPT ![t.saga_id] =
        IF @ = NoRow
        THEN [status |-> t.status, error_message |-> NoError, completed_at |-> Null,
              completed_steps |-> CompletedSteps(t)]
        ELSE [status |-> t.status,
              error_message |-> IF t.error # NoError THEN t.error ELSE @.error_message,
              completed_at |-> IF t.status \in TerminalStatuses THEN time ELSE @.completed_at,
              completed_steps |-> CompletedSteps(t)]]

\* (variant: a failed saga is left failed)
FinalStatusFailed(ok) == IF ok THEN "completed" ELSE "failed"
\* the status execute_saga leaves: completed, or compensated by _compensate_saga
FinalStatus(ok) == IF ok THEN "completed" ELSE "compensated"

\* (variant: one attempt more)
RetriesExhaustedLate(attempt, max_retries) == ~(attempt < max_retries + 1)
\* _execute_step: attempt (from 0) was the last one allowed
RetriesExhausted(attempt, max_retries) == ~(attempt < max_retries)

Reversed(q) == [i \in 1..Len(q) |-> q[Len(q) + 1 - i]]
\* (variant: in the order of execution)
CompensationOrderForward(executed_steps) == executed_steps
\* _compensate_saga: reversed(executed_steps)
CompensationOrder(executed_steps) == Reversed(executed_steps)

\* (variant: an exception of a compensation ends the chain)
AfterCompensationStop(left, threw) == IF threw THEN 0 ELSE left - 1
\* _compensate_step catches the exception: the loop goes on
AfterCompensation(left, threw) == left - 1

\* execute_saga returns: the final status, persisted, and the return value
Finished(t, ok, time) ==
    [t EXCEPT !.status = FinalStatus(ok), !.completed_at = time]

\* execute_saga up to the first step: status executing, persisted
ExecuteSaga ==
    /\ exec.pc = "created"
    /\ LET t == [txn EXCEPT !.status = "executing"]
           rows == PersistSagaState(saga_states, t, now)
       IN
       IF Len(txn.steps) = 0
       THEN /\ txn' = Finished(t, TRUE, now)
            /\ saga_states' = PersistSagaState(rows, txn', now)
            /\ exec' = [exec EXCEPT !.pc = "done", !.returned = "true"]
       ELSE /\ txn' = [t EXCEPT !.steps[1].status = "executing"]
            /\ saga_states' = rows
            /\ exec' = [exec EXCEPT !.pc = "forward", !.step = 1, !.attempt = 0]
    /\ UNCHANGED <<now, eventStart, eventStatus, seats, bookings, rowLock, fast, redisUp, faults, circuit_breaker, rate, pc, req, saga, resp, ret, ncreate, nops>>

\* _compensate_saga before its loop, and after it when nothing is left
BeginCompensation(t, rows, ex, time) ==
    LET t1 == [t EXCEPT !.status = "compensating"]
        rows1 == PersistSagaState(rows, t1, time)
        order == CompensationOrder(ex.executed_steps)
    IN
    IF Len(order) = 0
    THEN [txn |-> Finished(t1, FALSE, time),
          rows |-> PersistSagaState(rows1, Finished(t1, FALSE, time), time),
          exec |-> [ex EXCEPT !.pc = "done", !.returned = "false"]]
    ELSE [txn |-> t1, rows |-> rows1,
          exec |-> [ex EXCEPT !.pc = "compensating", !.comp = Len(order)]]

\* One attempt of the current step's action, which returns (ok) or raises,
\* and what execute_saga does until the next action or compensation starts.
ExecuteStep(ok) ==
    /\ exec.pc = "forward"
    /\ LET k == exec.step
           a == exec.attempt
           called == [exec EXCEPT !.calls = Append(@, <<"action", k, ok>>)]
       IN
       IF ok
       THEN LET t == [txn EXCEPT !.steps[k].status = "completed"]
                rows == PersistSagaState(saga_states, t, now)
                ex == [called EXCEPT !.executed_steps = Append(@, k)]
            IN
            IF k = Len(txn.steps)
            THEN /\ txn' = Finished(t, TRUE, now)
                 /\ saga_states' = PersistSagaState(rows, txn', now)
                 /\ exec' = [ex EXCEPT !.pc = "done", !.returned = "true"]
            ELSE /\ txn' = [t EXCEPT !.steps[k + 1].status = "executing"]
                 /\ saga_states' = rows
                 /\ exec' = [ex EXCEPT !.step = k + 1, !.attempt = 0]
       ELSE LET t == [txn EXCEPT !.steps[k].retry_count = a + 1,
                                 !.steps[k].error = StepError(k, a + 1)]
            IN
            IF ~RetriesExhausted(a, txn.steps[k].max_retries)
            THEN /\ txn' = t
                 /\ saga_states' = saga_states
                 /\ exec' = [called EXCEPT !.attempt = a + 1]
            ELSE LET t1 == [t EXCEPT !.steps[k].status = "failed"]
                     rows1 == PersistSagaState(saga_states, t1, now)
                     t2 == [t1 EXCEPT !.status = "failed", !.error = t1.steps[k].error]
                     rows2 == PersistSagaState(rows1, t2, now)
                     c == BeginCompensation(t2, rows2, called, now)
                 IN
                 /\ txn' = c.txn
                 /\ saga_states' = c.rows
                 /\ exec' = c.exec
    /\ UNCHANGED <<now, eventStart, eventStatus, seats, bookings, rowLock, fast, redisUp, faults, circuit_breaker, rate, pc, req, saga, resp, ret, ncreate, nops>>

\* _compensate_step for the next step of reversed(executed_steps): the
\* compensation returns or raises (threw); then the loop, and its end.
CompensateSagaStep(threw) ==
    /\ exec.pc = "compensating"
    /\ exec.comp >= 1
    /\ LET order == CompensationOrder(exec.executed_steps)
           k == order[Len(order) + 1 - exec.comp]
           isCompleted == txn.steps[k].status = "completed"
           t == IF isCompleted
                THEN [txn EXCEPT !.steps[k].status = IF threw THEN "compensating" ELSE "compensated"]
                ELSE txn
           rows == IF isCompleted THEN PersistSagaState(saga_states, t, now) ELSE saga_states
           ex == [exec EXCEPT !.calls = IF isCompleted THEN Append(@, <<"compensation", k, ~threw>>) ELSE @,
                              !.comp = AfterCompensation(exec.comp, threw)]
       IN
       IF ex.comp = 0
       THEN /\ txn' = Finished(t, FALSE, now)
            /\ saga_states' = PersistSagaState(rows, txn', now)
            /\ exec' = [ex EXCEPT !.pc = "done", !.returned = "false"]
       ELSE /\ txn' = t
            /\ saga_states' = rows
            /\ exec' = ex
    /\ UNCHANGED <<now, eventStart, eventStatus, seats, bookings, rowLock, fast, redisUp, faults, circuit_breaker, rate, pc, req, saga, resp, ret, ncreate, nops>>

\* the sagas create_saga and add_step can assemble: up to MaxSteps steps,
\* each with its max_retries
StepRetries == UNION {[1..n -> 0..MaxStepRetries] : n \in 0..MaxSteps}

InitSaga ==
    /\ now = 0
    /\ eventStart = FarEventStart
    /\ eventStatus = "upcoming"
    /\ seats = [s \in Seats |-> [status |-> "available", reserved_by |-> None, reserved_at |-> Null]]
    /\ bookings = << >>
    /\ rowLock = [b \in BookingIds |-> 0]
    /\ fast = [k \in StoreKeys |-> NoKey]
    /\ redisUp = TRUE
    /\ faults = 0
    /\ circuit_breaker = ClosedBreaker
    /\ rate = [u \in Users |-> << >>]
    /\ pc = [p \in Procs |-> "idle"]
    /\ req = [p \in Procs |-> IdleReq]
    /\ saga = [p \in Procs |-> NoSaga]
    /\ resp = [p \in Procs |-> NoResp]
    /\ ret = NoRet
    /\ ncreate = 0
    /\ nops = 0
    /\ \E retries \in StepRetries : txn = SagaTransaction(1, retries)
    /\ exec = [NoExec EXCEPT !.pc = "created"]
    /\ saga_states = [id \in SagaIds |-> NoRow]

NextSaga ==
    \/ ExecuteSaga
    \/ \E ok \in BOOLEAN : ExecuteStep(ok)
    \/ \E threw \in BOOLEAN : CompensateSagaStep(threw)

SpecSaga == InitSaga /\ [][NextSaga]_vars

\* ------------------------------------------------ saga recovery
\* "Server restart during execution - requires manual investigation"
RestartError == <<"server_restart">>
\* (variant: a saga in compensation is not recovered)
IncompleteStatusesNoCompensating == {"started", "executing"}
\* the statuses recover_incomplete_sagas selects
IncompleteStatuses == {"started", "executing", "compensating"}

RecoveredRow(row, time) ==
    [row EXCEPT !.status = "failed", !.error_message = RestartError, !.completed_at = time]

\* recover_incomplete_sagas: every selected row is marked, then the commit
recover_incomplete_sagas ==
    /\ saga_states' = [id \in SagaIds |->
                          IF saga_states[id].status \in IncompleteStatuses
                          THEN RecoveredRow(saga_states[id], now)
                          ELSE saga_states[id]]
    /\ UNCHANGED <<now, eventStart, eventStatus, seats, bookings, rowLock, fast, redisUp, faults, circuit_breaker, rate, pc, req, saga, resp, ret, ncreate, nops, txn, exec>>

\* The rows _persist_saga_state leaves for a saga in each status: the
\* insert has neither error nor completion time, a failed saga got both
\* and keeps them while compensating.  No call of _persist_saga_state
\* leaves a started row; the status column admits one and the recovery
\* selects it.
PersistedRows ==
    {NoRow}
    \cup {[status |-> st, error_message |-> NoError, completed_at |-> Null, completed_steps |-> c] :
             st \in {"started", "executing"}, c \in 0..1}
    \cup {[status |-> "completed", error_message |-> NoError, completed_at |-> 0, completed_steps |-> 1]}
    \cup {[status |-> st, error_message |-> StepError(1, 1), completed_at |-> 0, completed_steps |-> 0] :
             st \in {"failed", "compensating", "compensated"}}

InitRecover ==
    /\ now = 0
    /\ eventStart = FarEventStart
    /\ eventStatus = "upcoming"
    /\ seats = [s \in Seats |-> [status |-> "available", reserved_by |-> None, reserved_at |-> Null]]
    /\ bookings = << >>
    /\ rowLock = [b \in BookingIds |-> 0]
    /\ fast = [k \in StoreKeys |-> NoKey]
    /\ redisUp = TRUE
    /\ faults = 0
    /\ circuit_breaker = ClosedBreaker
    /\ rate = [u \in Users |-> << >>]
    /\ pc = [p \in Procs |-> "idle"]
    /\ req = [p \in Procs |-> IdleReq]
    /\ saga = [p \in Procs |-> NoSaga]
    /\ resp = [p \in Procs |-> NoResp]
    /\ ret = NoRet
    /\ ncreate = 0
    /\ nops = 0
    /\ txn = NoTxn
    /\ exec = NoExec
    /\ saga_states \in [SagaIds -> PersistedRows]

NextRecover ==
    \/ recover_incomplete_sagas
    \/ Tick

SpecRecover == InitRecover /\ [][NextRecover]_vars

\* ------------------------------------------------ crash and restart
\* The saga_states row of a booking saga that is between its steps, as
\* _persist_saga_state wrote it after the last step transition.
PersistedRow(sg) ==
    [status |-> sg.status,
     error_message |-> NoError,
     completed_at |-> Null,
     completed_steps |-> Cardinality({k \in 1..2 : sg.step_status[k] = "completed"})]

InFlight(q) == pc[q] # "idle"

\* The server process dies while a booking saga is between the
\* fast-reservation step and the durable step: every request in flight is
\* lost with its in-memory saga; the rows persisted so far stay.
Crash ==
    /\ \E p \in Procs : pc[p] = "step2"
    /\ \A q \in Procs : pc[q] \in {"idle", "step1", "step2"}
    /\ pc' = [q \in Procs |-> IF InFlight(q) THEN "down" ELSE "idle"]
    /\ saga' = [q \in Procs |-> IF InFlight(q) THEN NoSaga ELSE saga[q]]
    /\ saga_states' = [id \in SagaIds |->
                          IF \E q \in Procs : InFlight(q) /\ req[q].call = id
                          THEN PersistedRow(saga[CHOOSE q \in Procs : InFlight(q) /\ req[q].call = id])
                          ELSE saga_states[id]]
    /\ UNCHANGED <<now, eventStart, eventStatus, seats, bookings, rowLock, fast, redisUp, faults, circuit_breaker, rate, req, resp, ret, ncreate, nops, txn, exec>>

\* lifespan, the startup half: init_db, auto_seed_demo_data (the tables
\* are not empty), init_redis, which raises unless the store answers.
\* The new process has a closed breaker and serves requests again.
lifespan ==
    /\ \E p \in Procs : pc[p] = "down"
    /\ redisUp
    /\ pc' = [q \in Procs |-> "idle"]
    /\ circuit_breaker' = ClosedBreaker
    /\ UNCHANGED <<now, eventStart, eventStatus, seats, bookings, rowLock, fast, redisUp, faults, rate, req, saga, resp, ret, ncreate, nops, txn, exec, saga_states>>

InitCrash ==
    /\ now = 0
    /\ eventStart = FarEventStart
    /\ eventStatus = "upcoming"
    /\ seats = [s \in Seats |-> [status |-> "available", reserved_by |-> None, reserved_at |-> Null]]
    /\ bookings = << >>
    /\ rowLock = [b \in BookingIds |-> 0]
    /\ fast = [k \in StoreKeys |-> NoKey]
    /\ redisUp = TRUE
    /\ faults = 0
    /\ circuit_breaker = ClosedBreaker
    /\ rate = [u \in Users |-> << >>]
    /\ pc = [p \in Procs |-> "idle"]
    /\ req = [p \in Procs |-> IdleReq]
    /\ saga = [p \in Procs |-> NoSaga]
    /\ resp = [p \in Procs |-> NoResp]
    /\ ret = NoRet
    /\ ncreate = NumSagas
    /\ nops = 0
    /\ txn = NoTxn
    /\ exec = NoExec
    /\ saga_states = [id \in SagaIds |-> NoRow]

NextCrash ==
    \/ \E p \in Procs, u \in Users, e \in ExistingEvents, ids \in SeatLists :
            CreateBooking(p, u, e, ids)
    \/ \E p \in Procs : ReserveSeatsRedis(p)
    \/ \E p \in Procs : CreateBookingDb(p)
    \/ \E p \in Procs : ReleaseSeatsRedis(p)
    \/ Crash
    \/ lifespan
    \/ Tick
    \/ RedisDown
    \/ RedisRecover

SpecCrash == InitCrash /\ [][NextCrash]_vars

\* ------------------------------------------------ rate limiter
\* the limits and windows callers pass: create_booking's, and a small
\* limit with a window of two clock steps
RateLimits == {TestRateLimit, BookingRateLimit}
RateWindows == {BookingRateWindow, 2 * TickMinutes}

\* zremrangebyscore leaves nothing: the key is as good as new
Fresh(z, window, t) == \A i \in 1..Len(z) : z[i] <= t - window

ReportAfter(rep, z, limit, window, t, ran, limited, count) ==
    IF ~ran THEN [rep EXCEPT !.limit = limit, !.window = window]
    ELSE IF Fresh(z, window, t)
    THEN [rep EXCEPT !.limit = limit, !.window = window, !.first = t, !.calls = 1,
                     !.count = count, !.windows = IF @ < 2 THEN @ + 1 ELSE @,
                     !.was_limited = @ \/ limited]
    ELSE IF rep.first # Null /\ t - rep.first < window
    THEN [rep EXCEPT !.limit = limit, !.window = window, !.calls = rep.calls + 1,
                     !.count = count, !.was_limited = @ \/ limited]
    ELSE [rep EXCEPT !.limit = limit, !.window = window, !.first = Null, !.calls = 0,
                     !.count = count, !.was_limited = @ \/ limited]

\* One is_rate_limited call.  A key is always used with one limit and
\* window, as create_booking does.
is_rate_limited(key, limit, window) ==
    /\ ret.n < MaxRateCalls
    /\ ret.reported[key].limit \in {0, limit}
    /\ ret.reported[key].window \in {0, window}
    /\ \E o \in CallOutcomes :
        /\ OutcomeAllowed(o)
        /\ redisUp' = UpAfter(o)
        /\ faults' = FaultsAfter(o)
        /\ circuit_breaker' = BreakerAfter(o)
        /\ LET r == RateLimitScript(rate[key], limit, window, now)
               count == IF o = "run" THEN r.count ELSE 0
           IN
            /\ rate' = IF o = "run" THEN [rate EXCEPT ![key] = r.store] ELSE rate
            /\ ret' = [n |-> ret.n + 1, op |-> "rate", user |-> key, event |-> None,
                       seat_ids |-> << >>, raised |-> (o = "raise"),
                       ok |-> ~(o = "run" /\ r.limited),
                       seats |-> {}, count |-> count, resource |-> 0,
                       granted |-> ret.granted,
                       reported |-> IF o = "raise" THEN ret.reported
                                    ELSE [ret.reported EXCEPT ![key] =
                                            ReportAfter(@, rate[key], limit, window, now,
                                                        o = "run", o = "run" /\ r.limited,
                                                        count)]]
    /\ UNCHANGED <<now, eventStart, eventStatus, seats, bookings, rowLock, fast, pc, req, saga, resp, ncreate, nops, txn, exec, saga_states>>

\* the clock of the store moves on; the sorted sets are pruned by the calls
TickRate ==
    /\ now < MaxTime
    /\ now' = now + TickMinutes
    /\ fast' = ExpireKeys(fast, now')
    /\ UNCHANGED <<eventStart, eventStatus, seats, bookings, rowLock, redisUp, faults, circuit_breaker, rate, pc, req, saga, resp, ret, ncreate, nops, txn, exec, saga_states>>

NextRate ==
    \/ \E key \in Users, limit \in RateLimits, window \in RateWindows :
          is_rate_limited(key, limit, window)
    \/ TickRate
    \/ RedisDown
    \/ RedisRecover

SpecRate == Init /\ [][NextRate]_vars

\* ------------------------------------------------ circuit breaker calls
\* CircuitBreaker.call by concurrent callers.  The tasks of one event loop
\* interleave at the await of the wrapped function only: is_open and the
\* half-open check hold a lock that is never contended and do not suspend,
\* so one step admits or rejects a caller, and another records how its
\* wrapped function ended.
Callers == 1..NumCallers
\* a caller's admission: whether as a probe, and in which half-open period
NoCall == [probe |-> FALSE, period |-> 0]
\* what is known of the calls made: calls started, whether the last one
\* raised at once, the wrapped functions invoked, the failures recorded
\* since the last recorded success, the half-open periods begun, when the
\* breaker last opened
NoBreakerRet == [n |-> 0, raised |-> FALSE, invoked |-> 0, failures |-> 0, period |-> 0,
                 opened_at |-> Null]

\* (variant: one probe more)
HalfOpenLimitReachedLate(c) == c.half_open_calls > HalfOpenMaxCalls

\* call: half_open_calls >= half_open_max_calls
HalfOpenLimitReached(c) == c.half_open_calls >= HalfOpenMaxCalls

\* the first half of call: is_open, then the half-open check
call(c) ==
    /\ pc[c] = "idle"
    /\ ret.n < MaxBreakerCalls
    /\ LET b == AfterIsOpen(circuit_breaker, now)
           began == b.state = "HALF_OPEN" /\ circuit_breaker.state = "OPEN"
           period == IF began THEN ret.period + 1 ELSE ret.period
           rejected == \/ IsOpen(circuit_breaker, now)
                       \/ b.state = "HALF_OPEN" /\ HalfOpenLimitReached(b)
       IN
        /\ circuit_breaker' =
              IF ~rejected /\ b.state = "HALF_OPEN"
              THEN [b EXCEPT !.half_open_calls = b.half_open_calls + 1]
              ELSE b
        /\ pc' = [pc EXCEPT ![c] = IF rejected THEN "idle" ELSE "called"]
        /\ req' = [req EXCEPT ![c] = IF rejected THEN NoCall
                                     ELSE [probe |-> b.state = "HALF_OPEN", period |-> period]]
        /\ ret' = [ret EXCEPT !.n = ret.n + 1, !.raised = rejected,
                              !.invoked = IF rejected THEN @ ELSE @ + 1,
                              !.period = period]
    /\ UNCHANGED <<now, eventStart, eventStatus, seats, bookings, rowLock, fast, redisUp, faults, rate, saga, resp, ncreate, nops, txn, exec, saga_states>>

\* the second half of call: the wrapped function returned (ok) or threw
call_returns(c, ok) ==
    /\ pc[c] = "called"
    /\ circuit_breaker' = IF ok THEN record_success(circuit_breaker)
                          ELSE record_failure(circuit_breaker, now)
    /\ pc' = [pc EXCEPT ![c] = "idle"]
    /\ req' = [req EXCEPT ![c] = NoCall]
    /\ ret' = [ret EXCEPT !.raised = ~ok,
                          !.failures = IF ok THEN 0 ELSE @ + 1,
                          !.opened_at = IF circuit_breaker.state # "OPEN"
                                           /\ circuit_breaker'.state = "OPEN"
                                        THEN now ELSE @]
    /\ UNCHANGED <<now, eventStart, eventStatus, seats, bookings, rowLock, fast, redisUp, faults, rate, saga, resp, ncreate, nops, txn, exec, saga_states>>

InitBreaker ==
    /\ now = 0
    /\ eventStart = FarEventStart
    /\ eventStatus = "upcoming"
    /\ seats = [s \in Seats |-> [status |-> "available", reserved_by |-> None, reserved_at |-> Null]]
    /\ bookings = << >>
    /\ rowLock = [b \in BookingIds |-> 0]
    /\ fast = [k \in StoreKeys |-> NoKey]
    /\ redisUp = TRUE
    /\ faults = 0
    /\ circuit_breaker = ClosedBreaker
    /\ rate = [u \in Users |-> << >>]
    /\ pc = [c \in Callers |-> "idle"]
    /\ req = [c \in Callers |-> NoCall]
    /\ saga = [p \in Procs |-> NoSaga]
    /\ resp = [p \in Procs |-> NoResp]
    /\ ret = NoBreakerRet
    /\ ncreate = 0
    /\ nops = 0
    /\ IdleOrchestrator

NextBreaker ==
    \/ \E c \in Callers : call(c)
    \/ \E c \in Callers, ok \in BOOLEAN : call_returns(c, ok)
    \/ Tick

SpecBreaker == InitBreaker /\ [][NextBreaker]_vars

\* ------------------------------------------------ row locks of step 2
\* The transaction of _create_booking_db with its SELECT ... FOR UPDATE
\* locks taken one row at a time: a transaction waits while another holds
\* the row it asks for, and gives its locks back when it commits or rolls
\* back.  rowLock maps the event row and the seat rows to their holder.
EventRow(e) == <<"event", e>>
SeatRow(s) == <<"seat", s>>
DbRows == {EventRow(e) : e \in ExistingEvents} \cup {SeatRow(s) : s \in Seats}

\* (variant: the seat rows only, the second caller taking them from the
\* highest id down)
LockOrderByCaller(p) ==
    LET q == SetToSortedSeq({s \in Range(req[p].seat_ids) : seats[s].status = "available"}) IN
    [i \in 1..Len(q) |-> SeatRow(IF p = 1 THEN q[i] ELSE q[Len(q) + 1 - i])]

\* the rows the transaction locks, in the order it locks them: the event
\* row, then, unless the event is missing or has started, the requested
\* seat rows that are available, ORDER BY id
LockOrder(p) ==
    IF req[p].event \notin ExistingEvents THEN << >>
    ELSE IF eventStart <= now THEN <<EventRow(req[p].event)>>
    ELSE <<EventRow(req[p].event)>> \o
         [i \in 1..Cardinality({s \in Range(req[p].seat_ids) : seats[s].status = "available"}) |->
            SeatRow(SetToSortedSeq({s \in Range(req[p].seat_ids) :
                                        seats[s].status = "available"})[i])]

LockedRows(p) == {r \in DbRows : rowLock[r] = p}

\* the next row lock is granted
AcquireRowLock(p) ==
    /\ pc[p] = "step2"
    /\ Cardinality(LockedRows(p)) < Len(LockOrder(p))
    /\ LET r == LockOrder(p)[Cardinality(LockedRows(p)) + 1] IN
        /\ rowLock[r] = 0
        /\ rowLock' = [rowLock EXCEPT ![r] = p]
    /\ UNCHANGED <<now, eventStart, eventStatus, seats, bookings, fast, redisUp, faults, circuit_breaker, rate, pc, req, saga, resp, ret, ncreate, nops, txn, exec, saga_states>>

\* with its rows locked the transaction runs to its commit or rollback
CommitBookingDb(p) ==
    /\ Cardinality(LockedRows(p)) = Len(LockOrder(p))
    /\ DbTransaction(p)
    /\ rowLock' = [r \in DbRows |-> IF rowLock[r] = p THEN 0 ELSE rowLock[r]]

InitDeadlock ==
    /\ now = 0
    /\ eventStart = FarEventStart
    /\ eventStatus = "upcoming"
    /\ seats = [s \in Seats |-> [status |-> "available", reserved_by |-> None, reserved_at |-> Null]]
    /\ bookings = << >>
    /\ rowLock = [r \in DbRows |-> 0]
    /\ fast = [k \in StoreKeys |-> NoKey]
    /\ redisUp = TRUE
    /\ faults = 0
    /\ circuit_breaker = ClosedBreaker
    /\ rate = [u \in Users |-> << >>]
    /\ pc = [p \in Procs |-> "idle"]
    /\ req = [p \in Procs |-> IdleReq]
    /\ saga = [p \in Procs |-> NoSaga]
    /\ resp = [p \in Procs |-> NoResp]
    /\ ret = NoRet
    /\ ncreate = MaxBookings
    /\ nops = 0
    /\ IdleOrchestrator

NextDeadlock ==
    \/ \E p \in Procs, u \in Users, e \in ExistingEvents, ids \in SeatLists :
            CreateBooking(p, u, e, ids)
    \/ \E p \in Procs : ReserveSeatsRedis(p)
    \/ \E p \in Procs : AcquireRowLock(p)
    \/ \E p \in Procs : CommitBookingDb(p)
    \/ \E p \in Procs : ReleaseSeatsRedis(p)
    \/ Tick
    \/ RedisRecover

SpecDeadlock == InitDeadlock /\ [][NextDeadlock]_vars

\* every step of a request is taken in the end: the store answers or times
\* out, the database grants a free row lock and finishes a transaction
SpecDeadlockFair ==
    /\ SpecDeadlock
    /\ \A p \in Procs :
        /\ WF_vars(ReserveSeatsRedis(p))
        /\ WF_vars(AcquireRowLock(p))
        /\ WF_vars(CommitBookingDb(p))
        /\ WF_vars(ReleaseSeatsRedis(p))

\* ------------------------------------------------ event list cache
\* GET /events through the cache, and the admin mutations of the event row
\* with their invalidation.  The event row is E1's status, or None when the
\* row does not exist; a list request filters by status or not at all.
\* Every await is a step: the cache GET, the database query, the SETEX, the
\* commit, the KEYS and the DEL of the invalidation.  The store answers
\* throughout.
EventsCacheTtl == Minutes(EventsCacheTtlSeconds)
CacheParams == {None, "upcoming"}
MutatedStatuses == {"upcoming", "cancelled"}
NoEntry == [present |-> FALSE, data |-> << >>, exp |-> 0]
NoListReq == [op |-> None, param |-> None, data |-> << >>, keys |-> {}]
NoListResp == [answered |-> FALSE, cached |-> FALSE, data |-> << >>]

\* the rows the list query selects
Query(param) ==
    IF eventStatus # None /\ (param = None \/ eventStatus = param)
    THEN <<eventStatus>> ELSE << >>

\* get_events up to the cache lookup: a hit is returned
get_events(p, param) ==
    /\ pc[p] = "idle"
    /\ ncreate > 0
    /\ ncreate' = ncreate - 1
    /\ IF fast[param].present
       THEN /\ resp' = [resp EXCEPT ![p] = [answered |-> TRUE, cached |-> TRUE,
                                            data |-> fast[param].data]]
            /\ req' = [req EXCEPT ![p] = [NoListReq EXCEPT !.op = "list", !.param = param]]
            /\ pc' = pc
       ELSE /\ resp' = [resp EXCEPT ![p] = NoListResp]
            /\ req' = [req EXCEPT ![p] = [NoListReq EXCEPT !.op = "list", !.param = param]]
            /\ pc' = [pc EXCEPT ![p] = "query"]
    /\ UNCHANGED <<now, eventStart, eventStatus, seats, bookings, rowLock, fast, redisUp, faults, circuit_breaker, rate, saga, ret, nops, txn, exec, saga_states>>

\* db.execute(query)
QueryEvents(p) ==
    /\ pc[p] = "query"
    /\ req' = [req EXCEPT ![p].data = Query(req[p].param)]
    /\ pc' = [pc EXCEPT ![p] = "set"]
    /\ UNCHANGED <<now, eventStart, eventStatus, seats, bookings, rowLock, fast, redisUp, faults, circuit_breaker, rate, saga, resp, ret, ncreate, nops, txn, exec, saga_states>>

\* set_validated_cache, and the response
SetValidatedCache(p) ==
    /\ pc[p] = "set"
    /\ fast' = [fast EXCEPT ![req[p].param] =
                    [present |-> TRUE, data |-> req[p].data, exp |-> now + EventsCacheTtl]]
    /\ resp' = [resp EXCEPT ![p] = [answered |-> TRUE, cached |-> FALSE, data |-> req[p].data]]
    /\ pc' = [pc EXCEPT ![p] = "idle"]
    /\ UNCHANGED <<now, eventStart, eventStatus, seats, bookings, rowLock, redisUp, faults, circuit_breaker, rate, req, saga, ret, ncreate, nops, txn, exec, saga_states>>

\* create_event, update_event, delete_event up to db.commit()
MutateEvent(p, op, status) ==
    /\ pc[p] = "idle"
    /\ nops > 0
    /\ nops' = nops - 1
    /\ CASE op = "create" -> eventStatus = None /\ status = "upcoming"
         [] op = "update" -> eventStatus \notin {None, status}
         [] op = "delete" -> eventStatus # None /\ status = None
    /\ eventStatus' = status
    /\ req' = [req EXCEPT ![p] = [NoListReq EXCEPT !.op = op]]
    /\ resp' = [resp EXCEPT ![p] = NoListResp]
    /\ pc' = [pc EXCEPT ![p] = "invalidate"]
    /\ UNCHANGED <<now, eventStart, seats, bookings, rowLock, fast, redisUp, faults, circuit_breaker, rate, saga, ret, ncreate, txn, exec, saga_states>>

\* invalidate_pattern on <version>:events:*, first half: redis.keys(pattern)
InvalidateKeys(p) ==
    /\ pc[p] = "invalidate"
    /\ req' = [req EXCEPT ![p].keys = {k \in CacheParams : fast[k].present}]
    /\ pc' = [pc EXCEPT ![p] = "delete"]
    /\ UNCHANGED <<now, eventStart, eventStatus, seats, bookings, rowLock, fast, redisUp, faults, circuit_breaker, rate, saga, resp, ret, ncreate, nops, txn, exec, saga_states>>

\* second half: redis.delete(*keys), and the handler returns
InvalidateDelete(p) ==
    /\ pc[p] = "delete"
    /\ fast' = [k \in CacheParams |-> IF k \in req[p].keys THEN NoEntry ELSE fast[k]]
    /\ resp' = [resp EXCEPT ![p] = [answered |-> TRUE, cached |-> FALSE, data |-> << >>]]
    /\ pc' = [pc EXCEPT ![p] = "idle"]
    /\ UNCHANGED <<now, eventStart, eventStatus, seats, bookings, rowLock, redisUp, faults, circuit_breaker, rate, req, saga, ret, ncreate, nops, txn, exec, saga_states>>

\* the clock moves on and the store drops the entries whose TTL is over
TickCache ==
    /\ now < MaxTime
    /\ now' = now + TickMinutes
    /\ fast' = [k \in CacheParams |-> IF fast[k].present /\ fast[k].exp <= now'
                                      THEN NoEntry ELSE fast[k]]
    /\ UNCHANGED <<eventStart, eventStatus, seats, bookings, rowLock, redisUp, faults, circuit_breaker, rate, pc, req, saga, resp, ret, ncreate, nops, txn, exec, saga_states>>

InitCache ==
    /\ now = 0
    /\ eventStart = FarEventStart
    /\ eventStatus = "upcoming"
    /\ seats = [s \in Seats |-> [status |-> "available", reserved_by |-> None, reserved_at |-> Null]]
    /\ bookings = << >>
    /\ rowLock = [b \in BookingIds |-> 0]
    /\ fast = [k \in CacheParams |-> NoEntry]
    /\ redisUp = TRUE
    /\ faults = 0
    /\ circuit_breaker = ClosedBreaker
    /\ rate = [u \in Users |-> << >>]
    /\ pc = [p \in Procs |-> "idle"]
    /\ req = [p \in Procs |-> NoListReq]
    /\ saga = [p \in Procs |-> NoSaga]
    /\ resp = [p \in Procs |-> NoListResp]
    /\ ret = NoRet
    /\ ncreate = MaxReads
    /\ nops = MaxMutations
    /\ IdleOrchestrator

NextCache ==
    \/ \E p \in Procs, param \in CacheParams : get_events(p, param)
    \/ \E p \in Procs : QueryEvents(p)
    \/ \E p \in Procs : SetValidatedCache(p)
    \/ \E p \in Procs, status \in MutatedStatuses : MutateEvent(p, "update", status)
    \/ \E p \in Procs : MutateEvent(p, "create", "upcoming")
    \/ \E p \in Procs : MutateEvent(p, "delete", None)
    \/ \E p \in Procs : InvalidateKeys(p)
    \/ \E p \in Procs : InvalidateDelete(p)
    \/ TickCache

SpecCache == InitCache /\ [][NextCache]_vars

\* ------------------------------------------------ saga map and registry
\* The orchestrator's _active_sagas and _saga_cleanup_registry under
\* concurrent execute_saga calls.  create_saga and _cleanup_saga have no
\* await, so each is one step; execute_saga is suspended between them.
\* exec holds the two collections (the ids), ret how each saga's
\* execute_saga ended.
RunIds == 1..MaxSagaRuns
\* execute_saga returned True, returned False after a failed step, or went
\* through its except branch
Endings == {"completed", "step_failed", "unexpected_error"}
NoOrchestrator == [active_sagas |-> {}, saga_cleanup_registry |-> {}, created |-> 0]
NoEndings == [id \in RunIds |-> None]

\* (variant: the except branch skips the cleanup)
CleanupSagaUnlessError(o, id, how) ==
    IF how = "unexpected_error" THEN o
    ELSE [o EXCEPT !.active_sagas = @ \ {id}, !.saga_cleanup_registry = @ \ {id}]

\* the finally of execute_saga: _cleanup_saga, however the body ended
CleanupSaga(o, id, how) ==
    [o EXCEPT !.active_sagas = @ \ {id}, !.saga_cleanup_registry = @ \ {id}]

create_saga(p) ==
    /\ pc[p] = "idle"
    /\ exec.created < MaxSagaRuns
    /\ exec' = [exec EXCEPT !.active_sagas = @ \cup {exec.created + 1},
                            !.saga_cleanup_registry = @ \cup {exec.created + 1},
                            !.created = @ + 1]
    /\ req' = [req EXCEPT ![p] = [IdleReq EXCEPT !.op = "saga", !.call = exec.created + 1]]
    /\ pc' = [pc EXCEPT ![p] = "created"]
    /\ UNCHANGED <<now, eventStart, eventStatus, seats, bookings, rowLock, fast, redisUp, faults, circuit_breaker, rate, saga, resp, ret, ncreate, nops, txn, saga_states>>

\* execute_saga up to its first await
execute_saga(p) ==
    /\ pc[p] = "created"
    /\ pc' = [pc EXCEPT ![p] = "executing"]
    /\ UNCHANGED <<now, eventStart, eventStatus, seats, bookings, rowLock, fast, redisUp, faults, circuit_breaker, rate, req, saga, resp, ret, ncreate, nops, txn, exec, saga_states>>

\* execute_saga from its last await to its return
execute_saga_returns(p, how) ==
    /\ pc[p] = "executing"
    /\ exec' = CleanupSaga(exec, req[p].call, how)
    /\ ret' = [ret EXCEPT ![req[p].call] = how]
    /\ pc' = [pc EXCEPT ![p] = "idle"]
    /\ UNCHANGED <<now, eventStart, eventStatus, seats, bookings, rowLock, fast, redisUp, faults, circuit_breaker, rate, req, saga, resp, ncreate, nops, txn, saga_states>>

cleanup_orphaned_sagas ==
    /\ exec' = [exec EXCEPT !.saga_cleanup_registry = @ \cap exec.active_sagas]
    /\ UNCHANGED <<now, eventStart, eventStatus, seats, bookings, rowLock, fast, redisUp, faults, circuit_breaker, rate, pc, req, saga, resp, ret, ncreate, nops, txn, saga_states>>

InitRegistry ==
    /\ now = 0
    /\ eventStart = FarEventStart
    /\ eventStatus = "upcoming"
    /\ seats = [s \in Seats |-> [status |-> "available", reserved_by |-> None, reserved_at |-> Null]]
    /\ bookings = << >>
    /\ rowLock = [b \in BookingIds |-> 0]
    /\ fast = [k \in StoreKeys |-> NoKey]
    /\ redisUp = TRUE
    /\ faults = 0
    /\ circuit_breaker = ClosedBreaker
    /\ rate = [u \in Users |-> << >>]
    /\ pc = [p \in Procs |-> "idle"]
    /\ req = [p \in Procs |-> IdleReq]
    /\ saga = [p \in Procs |-> NoSaga]
    /\ resp = [p \in Procs |-> NoResp]
    /\ ret = NoEndings
    /\ ncreate = 0
    /\ nops = 0
    /\ txn = NoTxn
    /\ exec = NoOrchestrator
    /\ saga_states = [id \in SagaIds |-> NoRow]

NextRegistry ==
    \/ \E p \in Procs : create_saga(p)
    \/ \E p \in Procs : execute_saga(p)
    \/ \E p \in Procs, how \in Endings : execute_saga_returns(p, how)
    \/ cleanup_orphaned_sagas

SpecRegistry == InitRegistry /\ [][NextRegistry]_vars

\* ------------------------------------------------ booking metrics
\* MetricsCollector.track_booking_operation around concurrent booking
\* operations, and reset_metrics.  ret is the BookingMetrics object.
BookingMetrics ==
    [concurrent_bookings |-> 0, max_concurrent_bookings |-> 0, total_bookings |-> 0,
     successful_bookings |-> 0, failed_bookings |-> 0]
\* how the body of the with block ends: it returns, it raises an Exception,
\* or the task is cancelled (CancelledError, a BaseException)
Exits == {"success", "failure", "cancelled"}

\* entry: the gauge and its running maximum
track_booking_operation(p) ==
    /\ pc[p] = "idle"
    /\ nops > 0
    /\ nops' = nops - 1
    /\ ret' = [ret EXCEPT !.concurrent_bookings = @ + 1,
                          !.max_concurrent_bookings =
                              IF ret.concurrent_bookings + 1 > @
                              THEN ret.concurrent_bookings + 1 ELSE @]
    /\ pc' = [pc EXCEPT ![p] = "tracked"]
    /\ UNCHANGED <<now, eventStart, eventStatus, seats, bookings, rowLock, fast, redisUp, faults, circuit_breaker, rate, req, saga, resp, ncreate, txn, exec, saga_states>>

\* exit: after the yield, or in except Exception; neither for a cancellation
track_booking_operation_exits(p, how) ==
    /\ pc[p] = "tracked"
    /\ ret' = CASE how = "success" ->
                     [ret EXCEPT !.total_bookings = @ + 1, !.successful_bookings = @ + 1,
                                 !.concurrent_bookings = @ - 1]
                [] how = "failure" ->
                     [ret EXCEPT !.total_bookings = @ + 1, !.failed_bookings = @ + 1,
                                 !.concurrent_bookings = @ - 1]
                [] OTHER -> ret
    /\ pc' = [pc EXCEPT ![p] = "idle"]
    /\ UNCHANGED <<now, eventStart, eventStatus, seats, bookings, rowLock, fast, redisUp, faults, circuit_breaker, rate, req, saga, resp, ncreate, nops, txn, exec, saga_states>>

reset_metrics ==
    /\ ret' = BookingMetrics
    /\ UNCHANGED <<now, eventStart, eventStatus, seats, bookings, rowLock, fast, redisUp, faults, circuit_breaker, rate, pc, req, saga, resp, ncreate, nops, txn, exec, saga_states>>

InitMetrics ==
    /\ now = 0
    /\ eventStart = FarEventStart
    /\ eventStatus = "upcoming"
    /\ seats = [s \in Seats |-> [status |-> "available", reserved_by |-> None, reserved_at |-> Null]]
    /\ bookings = << >>
    /\ rowLock = [b \in BookingIds |-> 0]
    /\ fast = [k \in StoreKeys |-> NoKey]
    /\ redisUp = TRUE
    /\ faults = 0
    /\ circuit_breaker = ClosedBreaker
    /\ rate = [u \in Users |-> << >>]
    /\ pc = [p \in Procs |-> "idle"]
    /\ req = [p \in Procs |-> IdleReq]
    /\ saga = [p \in Procs |-> NoSaga]
    /\ resp = [p \in Procs |-> NoResp]
    /\ ret = BookingMetrics
    /\ ncreate = 0
    /\ nops = MaxTrackedOps
    /\ IdleOrchestrator

NextMetrics ==
    \/ \E p \in Procs : track_booking_operation(p)
    \/ \E p \in Procs, how \in Exits : track_booking_operation_exits(p, how)
    \/ reset_metrics

SpecMetrics == InitMetrics /\ [][NextMetrics]_vars

\* ------------------------------------------------ an abandoned booking
\* One committed pending booking of u1 made at time 0, whose owner calls
\* neither confirm nor cancel; time passes and CreateBooking calls arrive.
\* These are all the steps of the program that can then run: nothing in it
\* runs on a timer.
InitAbandoned ==
    /\ now = 0
    /\ eventStart = FarEventStart
    /\ eventStatus = "upcoming"
    /\ \E ids \in {Sorted(q) : q \in SeatLists} :
        /\ bookings = <<NewBooking("u1", "E1", ids, 0)>>
        /\ seats = PendingSeats(ids)
        /\ fast = ReserveScript([k \in StoreKeys |-> NoKey], "E1", ids, "u1", ReservationTtl, 0, 1).store
    /\ rowLock = [b \in BookingIds |-> 0]
    /\ redisUp = TRUE
    /\ faults = 0
    /\ circuit_breaker = ClosedBreaker
    /\ rate = [u \in Users |-> IF u = "u1" THEN <<0>> ELSE << >>]
    /\ pc = [p \in Procs |-> "idle"]
    /\ req = [p \in Procs |-> IdleReq]
    /\ saga = [p \in Procs |-> NoSaga]
    /\ resp = [p \in Procs |-> NoResp]
    /\ ret = NoRet
    /\ ncreate = MaxBookings
    /\ nops = 0
    /\ IdleOrchestrator

NextAbandoned ==
    \/ \E p \in Procs, u \in Users, e \in ExistingEvents, ids \in SeatLists :
            CreateBooking(p, u, e, ids)
    \/ \E p \in Procs : ReserveSeatsRedis(p)
    \/ \E p \in Procs : CreateBookingDb(p)
    \/ \E p \in Procs : ReleaseSeatsRedis(p)
    \/ Tick
    \/ RedisDown
    \/ RedisRecover

SpecAbandoned == InitAbandoned /\ [][NextAbandoned]_vars

\* ------------------------------------------------ fast-store claims
\* a step that is one reserve_seats call, seen through what it returned
ReserveReturns == ret'.n # ret.n /\ ret'.op = "reserve"
ReleaseReturns == ret'.n # ret.n /\ ret'.op = "release"
Requested == Range(ret'.seat_ids)
AlreadyReserved == {s \in Requested : fast[Key(ret'.event, s)] # NoKey}
NewlyReserved ==
    /\ AlreadyReserved = {}
    /\ \A k \in Keys :
        IF k[1] = ret'.event /\ k[2] \in Requested
        THEN fast'[k].holder = ret'.user /\ fast'[k].exp = now + ReservationTtl
        ELSE fast'[k] = fast[k]

\* C5: ReserveSeats is all-or-nothing.  Every call either newly reserves
\* every requested seat under the holder with the TTL and returns ok, or
\* creates and modifies no key and returns not-ok with a non-empty failed
\* set that is exactly the requested seats that were already reserved.
C5_AllOrNothing ==
    [][ReserveReturns =>
        \/ ~ret'.raised /\ ret'.ok /\ NewlyReserved
        \/ /\ ~ret'.raised /\ ~ret'.ok
           /\ fast' = fast
           /\ ret'.seats # {}
           /\ ret'.seats = AlreadyReserved]_vars

\* the requested seats another user holds when the call is made
HeldByOthers ==
    {s \in Requested : fast[Key(ret'.event, s)] # NoKey
                        /\ fast[Key(ret'.event, s)].holder # ret'.user}
TtlLapses(k) == now' >= fast[k].exp
ReleasedByHolder(k) ==
    /\ ReleaseReturns
    /\ ret'.user = fast[k].holder
    /\ ret'.event = k[1]
    /\ k[2] \in Requested

ExtendedByHolder(k) ==
    /\ ret'.n # ret.n /\ ret'.op = "extend"
    /\ ret'.user = fast[k].holder
    /\ fast'[k].holder = fast[k].holder

\* C6: soft-reservation safety.  While u holds a seat's key (from a
\* ReserveSeats that returned ok, until the TTL lapses or u releases it),
\* no ReserveSeats of another user over that seat returns ok, one that
\* returns names the whole overlap as failed, and the key stays u's.
C6_SoftReservationSafety ==
    [][/\ (ReserveReturns /\ HeldByOthers # {}) =>
            /\ ~ret'.ok
            /\ ~ret'.raised => HeldByOthers \subseteq ret'.seats
       /\ \A k \in Keys : fast[k] # NoKey =>
            \/ fast'[k] = fast[k]
            \/ ExtendedByHolder(k)
            \/ TtlLapses(k)
            \/ ReleasedByHolder(k)]_vars

\* C6 witness: a reserve that returned not-ok, naming a seat that another
\* user went on holding.
C6_Witness ==
    /\ ret.op = "reserve" /\ ~ret.ok /\ ~ret.raised
    /\ \E s \in ret.seats :
        /\ s \in Range(ret.seat_ids)
        /\ fast[Key(ret.event, s)] # NoKey
        /\ fast[Key(ret.event, s)].holder # ret.user
    /\ Len(ret.seat_ids) > 1

\* ------------------------------------------------- lifecycle claims
\* a step in which worker p takes up a confirm call for booking b
ConfirmStarts(p, b) ==
    /\ Dispatch(p) /\ nops' < nops
    /\ req'[p].op = "confirm" /\ req'[p].booking = b
OwnPending(p, b) == ConfirmWhere(b, req'[p].user)
SeatsReleased(b) ==
    \A s \in bookings[b].seat_ids :
        seats'[s] = [status |-> "available", reserved_by |-> None, reserved_at |-> Null]

\* C8: a confirm of a pending booking observed after its expires_at makes
\* the booking expired and its seats available with the holder fields
\* cleared, in the one committed transaction, and answers 410
\* booking_expired; the booking is not confirmed.
C8_ConfirmAfterExpiryExpires ==
    [][\A p \in Procs, b \in BookingIds :
        (ConfirmStarts(p, b) /\ OwnPending(p, b) /\ now > bookings[b].expires_at) =>
            /\ bookings'[b].status = "expired"
            /\ bookings'[b].confirmed_at = Null
            /\ SeatsReleased(b)
            /\ rowLock'[b] = 0
            /\ pc'[p] = "idle"
            /\ resp'[p] = Resp(410, "booking_expired", b)]_vars

\* C8 witness: a confirm answered 410 on a booking of two seats.
C8_Witness ==
    \E p \in Procs :
        /\ Returned(p) /\ req[p].op = "confirm" /\ resp[p].code = 410
        /\ bookings[req[p].booking].status = "expired"
        /\ Cardinality(bookings[req[p].booking].seat_ids) = 2
        /\ now > bookings[req[p].booking].expires_at

\* C9: inline expiration exclusivity.  A booking becomes confirmed only
\* from pending and only by a confirm that observed it not past its
\* expires_at; expired and cancelled are final, and a confirmed booking
\* can only become cancelled.
C9_ExpirationExclusive ==
    [][\A b \in 1..Len(bookings) :
        /\ bookings[b].status \in {"expired", "cancelled"} =>
                bookings'[b].status = bookings[b].status
        /\ bookings[b].status = "confirmed" =>
                bookings'[b].status \in {"confirmed", "cancelled"}
        /\ (bookings'[b].status = "confirmed" /\ bookings[b].status # "confirmed") =>
                /\ bookings[b].status = "pending"
                /\ bookings'[b].confirmed_at <= bookings[b].expires_at]_vars

\* C9 witness: past its expires_at the booking is expired, and a later
\* call on it was turned away.
C9_Witness ==
    \E p \in Procs :
        /\ Returned(p) /\ resp[p].code = 404
        /\ req[p].booking <= Len(bookings)
        /\ bookings[req[p].booking].status = "expired"
        /\ bookings[req[p].booking].user = req[p].user
        /\ now > bookings[req[p].booking].expires_at

\* C10: a confirm that observes the booking at exactly its expires_at
\* treats it as expired: the booking becomes expired, not confirmed.
C10_BoundaryIsExpired ==
    [][\A p \in Procs, b \in BookingIds :
        (ConfirmStarts(p, b) /\ OwnPending(p, b) /\ now = bookings[b].expires_at) =>
            /\ bookings'[b].status = "expired"
            /\ resp'[p] = Resp(410, "booking_expired", b)]_vars

\* a step in which worker p takes up a confirm, cancel or lookup of booking b
OpStarts(p, b) == Dispatch(p) /\ nops' < nops /\ req'[p].booking = b
PendingPastExpiry(p, b) ==
    /\ BookingRow(b, req'[p].user, {"pending"})
    /\ now > bookings[b].expires_at

\* C11: a pending booking whose expiration has passed is expired by whichever
\* operation observes it next (confirm, cancel or lookup): after that step
\* its status is expired, not pending, cancelled or confirmed.
C11_NextObservationExpires ==
    [][\A p \in Procs, b \in BookingIds :
        (OpStarts(p, b) /\ PendingPastExpiry(p, b)) =>
            bookings'[b].status = "expired"]_vars

\* the status changes the lifecycle allows
AllowedTransitions ==
    {<<"pending", "confirmed">>, <<"pending", "cancelled">>,
     <<"confirmed", "cancelled">>, <<"pending", "expired">>}

\* C12: a booking is created pending and its status only ever changes
\* along pending -> confirmed, pending -> cancelled, confirmed -> cancelled
\* and pending -> expired; cancelled and expired are absorbing.
C12_OnlyLifecycleTransitions ==
    [][/\ Len(bookings') >= Len(bookings)
       /\ \A b \in 1..Len(bookings') :
            IF b <= Len(bookings)
            THEN \/ bookings'[b].status = bookings[b].status
                 \/ <<bookings[b].status, bookings'[b].status>> \in AllowedTransitions
            ELSE bookings'[b].status = "pending"]_vars

\* C12 witness: a booking that was confirmed and then cancelled, with a
\* further call on it turned away.
C12_Witness ==
    \E p \in Procs :
        /\ Returned(p) /\ resp[p].code = 404 /\ req[p].op \in {"confirm", "cancel"}
        /\ req[p].booking <= Len(bookings)
        /\ bookings[req[p].booking].user = req[p].user
        /\ bookings[req[p].booking].status = "cancelled"
        /\ bookings[req[p].booking].confirmed_at # Null

\* worker p is inside a valid confirm or cancel, about to release on the fast store
InRelease(p) == pc[p] \in {"confirm_release", "cancel_release"}

\* C13: the fast-store release of confirm and cancel is best-effort.  A
\* valid confirm or cancel that has reached its release goes on to commit
\* whatever the fast store does: the release never ends the call and never
\* rolls the transaction back.
C13_ReleaseIsBestEffort ==
    [][\A p \in Procs : InRelease(p) =>
        /\ pc'[p] \in {pc[p], "confirm_commit", "cancel_commit"}
        /\ rowLock'[req[p].booking] = p
        /\ resp'[p].code # 500]_vars

\* a step in which worker p takes up a CreateBooking call
CreateStarts(p) == Dispatch(p) /\ ncreate' < ncreate

\* C17: a CreateBooking that arrives while the fast store's circuit
\* breaker is open fails as 423 reservation_failed, not as 409 or 500, and
\* does no durable work.
C17_OpenBreakerIsReservationUnavailable ==
    [][\A p \in Procs :
        (CreateStarts(p) /\ IsOpen(circuit_breaker, now)) =>
            /\ pc'[p] = "idle"
            /\ resp'[p].code = 423
            /\ resp'[p].error_type = "reservation_failed"
            /\ bookings' = bookings
            /\ seats' = seats]_vars

\* the statuses in which a booking admits the operation
AdmissibleStatuses(op) == IF op = "confirm" THEN {"pending"} ELSE {"pending", "confirmed"}
Admissible(op, b, u) ==
    /\ b <= Len(bookings)
    /\ bookings[b].user = u
    /\ bookings[b].status \in AdmissibleStatuses(op)

\* C14: a confirm or cancel of a booking that does not exist, belongs to
\* another user or is not in an admissible status is rejected (404) and
\* changes no booking, no seat and no soft reservation; so a second cancel
\* frees nothing again.
C14_RejectedCallChangesNothing ==
    [][\A p \in Procs, b \in BookingIds :
        (/\ OpStarts(p, b)
         /\ req'[p].op \in {"confirm", "cancel"}
         /\ ~Admissible(req'[p].op, b, req'[p].user)) =>
            /\ resp'[p] = Resp(404, "not_found", b)
            /\ pc'[p] = "idle"
            /\ bookings' = bookings
            /\ seats' = seats
            /\ rowLock' = rowLock
            /\ fast' = fast]_vars

\* C14 witness: the second cancel of a booking that was cancelled while
\* pending, turned away.
C14_Witness ==
    \E p \in Procs :
        /\ Returned(p) /\ req[p].op = "cancel" /\ resp[p].code = 404
        /\ req[p].booking <= Len(bookings)
        /\ bookings[req[p].booking].user = req[p].user
        /\ bookings[req[p].booking].status = "cancelled"
        /\ bookings[req[p].booking].confirmed_at = Null
        /\ \A s \in bookings[req[p].booking].seat_ids : seats[s].status = "available"

\* a step in which worker p takes up a cancel call for its user's booking b
CancelStarts(p, b) ==
    /\ OpStarts(p, b) /\ req'[p].op = "cancel"
    /\ Admissible("cancel", b, req'[p].user)
\* the event starts less than 24 hours from now
StartsWithinWindow == eventStart - now < CancellationWindow

\* C15: a cancel of a confirmed booking whose event starts within 24 hours
\* is rejected (400) and leaves the booking confirmed and its seats booked;
\* a cancel of a pending booking is not rejected by this rule.
C15_CancellationWindow ==
    [][\A p \in Procs, b \in BookingIds : CancelStarts(p, b) =>
        IF bookings[b].status = "confirmed" /\ StartsWithinWindow
        THEN /\ resp'[p] = Resp(400, "cancellation_window_closed", b)
             /\ pc'[p] = "idle"
             /\ bookings' = bookings /\ bookings'[b].status = "confirmed"
             /\ seats' = seats
             /\ \A s \in bookings[b].seat_ids : seats'[s].status = "booked"
        ELSE /\ resp'[p].code # 400
             /\ pc'[p] = "cancel_release"]_vars

\* C15 witness: a cancel turned away with 400, the booking confirmed and a
\* seat of it booked.
C15_Witness ==
    \E p \in Procs :
        /\ Returned(p) /\ req[p].op = "cancel" /\ resp[p].code = 400
        /\ bookings[req[p].booking].status = "confirmed"
        /\ \A s \in bookings[req[p].booking].seat_ids : seats[s].status = "booked"

\* the event statuses that admit bookings
BookableStatuses == {"upcoming"}

\* C16: the durable step of CreateBooking creates a booking only for an
\* event that exists, starts after now and is in a bookable status; a
\* missing, started, cancelled or completed event gets none.
C16_OnlyBookableEvents ==
    [][Len(bookings') > Len(bookings) =>
        /\ bookings'[Len(bookings')].event \in ExistingEvents
        /\ eventStart > now
        /\ eventStatus \in BookableStatuses]_vars

\* a release or extend call whose commands were executed by the store
ScriptRan == redisUp /\ redisUp' /\ ~ret'.raised
ExtendReturns == ret'.n # ret.n /\ ret'.op = "extend"
OwnedRequested == {s \in Requested : fast[Key(ret'.event, s)].holder = ret'.user}
OwnedStoreKeys ==
    {Key(ret'.event, s) : s \in OwnedRequested}
        \cup {MetaKey(Key(ret'.event, s)) : s \in OwnedRequested}

\* the value a call returned, read as a number (a Python bool is 0 or 1)
ReturnedNumber == IF ret'.ok THEN 1 ELSE 0

\* C19: ReleaseReservation(e, S, u) deletes exactly the reservations of
\* seats in S owned by u, with their metadata, leaves every other key
\* untouched, also when some seats of S are already gone, and the value
\* it returns is the number of reservations it released.
C19_ReleaseExactAndCounted ==
    [][(ReleaseReturns /\ ScriptRan) =>
        /\ \A k \in StoreKeys :
              fast'[k] = IF k \in OwnedStoreKeys THEN NoKey ELSE fast[k]
        /\ ReturnedNumber = Cardinality(OwnedRequested)]_vars

\* C20: ExtendReservation(e, S, u, ttl) is all-or-nothing and scoped to
\* the owner: either every seat of S is owned by u, all their TTLs are
\* refreshed and it returns true, or it returns false and no TTL of any
\* reservation or reservation metadata is changed.
C20_ExtendAllOrNothing ==
    [][(ExtendReturns /\ ScriptRan) =>
        IF OwnedRequested = Requested
        THEN /\ ret'.ok
             /\ \A k \in StoreKeys :
                   fast'[k] = IF k \in OwnedStoreKeys
                              THEN [fast[k] EXCEPT !.exp = now + ReservationTtl]
                              ELSE fast[k]
        ELSE /\ ~ret'.ok
             /\ fast' = fast]_vars

\* ------------------------------------------------ lock claims
LockCallReturns == ret'.n # ret.n /\ ret'.op \in {"acquire_lock", "release_lock", "extend_lock"}
LockHeld(r) == fast[LockKey(r)] # NoKey
LockOwner(r) == fast[LockKey(r)].holder
\* a call that may not change the lock: any acquire, and a release or an
\* extend presented with an identifier that is not the owner's
NotByOwner == ret'.op = "acquire_lock" \/ ret'.user # LockOwner(ret'.resource)

\* C18: while a lock is held, acquire_lock by any caller is not granted,
\* and release_lock or extend_lock with an identifier other than the
\* owner's returns false; the lock's owner and TTL, and its metadata, are
\* unchanged.  A former owner whose lock lapsed and was taken by someone
\* else is such a caller.
C18_OnlyOwnerChangesLock ==
    [][(LockCallReturns /\ LockHeld(ret'.resource) /\ NotByOwner) =>
        /\ ~ret'.ok
        /\ fast'[LockKey(ret'.resource)] = fast[LockKey(ret'.resource)]
        /\ fast'[MetaKey(LockKey(ret'.resource))] = fast[MetaKey(LockKey(ret'.resource))]]_vars

\* C18 witness: a former owner's release or extend answered false by the
\* store while the lock is held by the one who took it after the lapse.
C18_Witness ==
    /\ ret.op \in {"release_lock", "extend_lock"}
    /\ ~ret.ok /\ ~ret.raised /\ redisUp
    /\ <<ret.resource, ret.user>> \in ret.granted
    /\ LockHeld(ret.resource)
    /\ LockOwner(ret.resource) # ret.user

\* ------------------------------------------------ rate-limit claims
RateReturns == ret'.n # ret.n /\ ret'.op = "rate"
RateKey == ret'.user
\* the call just answered is the i-th of the first window of a fresh key
InFirstWindow == ret'.reported[RateKey].first # Null
CallIndex == ret'.reported[RateKey].calls
RateLimitOf(k) == ret'.reported[k].limit

SameWindow ==
    /\ ret.reported[RateKey].first # Null
    /\ now - ret.reported[RateKey].first < ret.reported[RateKey].window
LastCount == ret.reported[RateKey].count

StoreUnavailable == ~redisUp \/ ~redisUp' \/ IsOpen(circuit_breaker, now)

\* C23: is_rate_limited fails open: whenever the fast store is
\* unavailable, the breaker being open included, the call returns
\* (not limited, 0) and does not raise.
C23_RateLimitFailsOpen ==
    [][(RateReturns /\ StoreUnavailable) =>
        ~ret'.raised /\ ret'.ok /\ ret'.count = 0]_vars

\* ------------------------------------------------ orchestrator claims
\* the invocations so far, in order: <<kind, step, returned normally>>
Calls == exec.calls
StepIds == 1..Len(txn.steps)
ActionCalls(k) == {i \in 1..Len(Calls) : Calls[i][1] = "action" /\ Calls[i][2] = k}
CompensationCalls == {i \in 1..Len(Calls) : Calls[i][1] = "compensation"}
Succeeded(k) == \E i \in ActionCalls(k) : Calls[i][3]
AllForwardCompleted == \A k \in StepIds : Succeeded(k)
SagaReturned == exec.pc = "done"
\* every attempt the step was allowed has been made and has raised
AllAttemptsFailed(k) ==
    /\ Cardinality(ActionCalls(k)) = txn.steps[k].max_retries + 1
    /\ ~Succeeded(k)

\* C25: execute_saga returns true exactly when every forward step
\* completed, and the saga is then completed; otherwise it returns false,
\* the saga is compensated and its error is the last error of the failing
\* step.
C25_ReturnsTrueIffAllCompleted ==
    SagaReturned =>
        IF AllForwardCompleted
        THEN exec.returned = "true" /\ txn.status = "completed"
        ELSE /\ exec.returned = "false"
             /\ txn.status = "compensated"
             /\ \E k \in StepIds :
                   /\ AllAttemptsFailed(k)
                   /\ txn.error = StepError(k, Cardinality(ActionCalls(k)))

\* C25 witness: a saga that returned false after its second step failed
\* on a retry.
C25_Witness ==
    /\ SagaReturned /\ exec.returned = "false"
    /\ Succeeded(1)
    /\ Len(txn.steps) >= 2
    /\ txn.steps[2].status = "failed"
    /\ txn.steps[2].retry_count >= 2

\* C26: steps run in the order they were added, one after the other; once
\* a step has failed no later action is invoked; the compensations invoked
\* are those of the completed steps, once each, in reverse order, and
\* never the failing step's.
C26_OrderedStepsReverseCompensation ==
    /\ \A i, j \in 1..Len(Calls) :
          (i < j /\ Calls[i][1] = "action" /\ Calls[j][1] = "action") =>
              /\ Calls[i][2] <= Calls[j][2]
              /\ Calls[i][2] < Calls[j][2] => Succeeded(Calls[i][2])
    /\ \A j \in 1..Len(Calls) :
          (Calls[j][1] = "action" /\ Calls[j][2] > 1) =>
              \E i \in 1..(j - 1) : Calls[i] = <<"action", Calls[j][2] - 1, TRUE>>
    /\ \A i \in CompensationCalls :
          /\ \A j \in 1..Len(Calls) : j > i => Calls[j][1] = "compensation"
          /\ \A j \in CompensationCalls : i < j => Calls[i][2] > Calls[j][2]
          /\ Succeeded(Calls[i][2])
    /\ (SagaReturned /\ exec.returned = "false") =>
          {Calls[i][2] : i \in CompensationCalls} = {k \in StepIds : Succeeded(k)}

\* C26 witness: the third step failed and the compensations of the second
\* and then the first step were invoked.
C26_Witness ==
    /\ SagaReturned /\ exec.returned = "false"
    /\ Len(txn.steps) = 3 /\ txn.steps[3].status = "failed"
    /\ Len(Calls) >= 2
    /\ Calls[Len(Calls) - 1][1] = "compensation" /\ Calls[Len(Calls) - 1][2] = 2
    /\ Calls[Len(Calls)][1] = "compensation" /\ Calls[Len(Calls)][2] = 1

\* C27: the action of a step with max_retries = n is invoked at most n + 1
\* times and not again after an attempt succeeded; when all n + 1 attempts
\* raise, the step is failed with retry_count n + 1 and the saga is in
\* compensation or has returned false.
C27_BoundedRetries ==
    \A k \in StepIds :
        /\ Cardinality(ActionCalls(k)) <= txn.steps[k].max_retries + 1
        /\ \A i, j \in ActionCalls(k) : Calls[i][3] => j <= i
        /\ AllAttemptsFailed(k) =>
              /\ txn.steps[k].status = "failed"
              /\ txn.steps[k].retry_count = txn.steps[k].max_retries + 1
              /\ exec.pc \in {"compensating", "done"}
              /\ exec.returned # "true"

\* C27 witness: a step with max_retries = 2 whose three attempts raised.
C27_Witness ==
    \E k \in StepIds :
        /\ txn.steps[k].max_retries = MaxStepRetries
        /\ AllAttemptsFailed(k)
        /\ txn.steps[k].status = "failed"

\* C28: a compensation that raises neither stops the chain nor is
\* re-raised: while compensating there is a next compensation to run, and
\* when the saga has failed and returned, it returned false with the
\* compensation of every completed step invoked, whichever of them raised.
C28_CompensationFailureDoesNotStopChain ==
    /\ exec.pc = "compensating" => exec.comp >= 1
    /\ (SagaReturned /\ ~AllForwardCompleted) =>
          /\ exec.returned = "false"
          /\ \A k \in StepIds :
                Succeeded(k) => \E i \in CompensationCalls : Calls[i][2] = k

\* C28 witness: the compensation of the second step raised, the first
\* step's compensation ran after it, and the saga returned false.
C28_Witness ==
    /\ SagaReturned /\ exec.returned = "false"
    /\ \E i, j \in CompensationCalls :
          /\ i < j
          /\ Calls[i] = <<"compensation", 2, FALSE>>
          /\ Calls[j][2] = 1

\* ------------------------------------------------ recovery claims
\* C30: recover_incomplete_sagas marks every row whose status is started,
\* executing or compensating as failed, with the restart message and a
\* completion time, and leaves every completed, failed or compensated row
\* as it was.
C30_RecoveryMarksIncompleteOnly ==
    [][recover_incomplete_sagas =>
        \A id \in SagaIds :
            /\ saga_states[id].status \in {"started", "executing", "compensating"} =>
                  /\ saga_states'[id].status = "failed"
                  /\ saga_states'[id].error_message = RestartError
                  /\ saga_states'[id].completed_at = now
            /\ saga_states[id].status \in {"completed", "failed", "compensated"} =>
                  saga_states'[id] = saga_states[id]]_vars

\* C30 witness: after a recovery one row is marked failed by the restart
\* and a compensated row still carries its step's error.
C30_Witness ==
    \E a, b \in SagaIds :
        /\ saga_states[a].status = "failed"
        /\ saga_states[a].error_message = RestartError
        /\ saga_states[a].completed_at = TickMinutes
        /\ saga_states[b].status = "compensated"
        /\ saga_states[b].error_message = StepError(1, 1)

\* ------------------------------------------------ crash claims
\* C24: after the worker died between the two steps of a booking saga and
\* was restarted, the startup has marked the saga's row failed (its soft
\* reservation is then left to the TTL).
C24_StartupMarksCrashedSagaFailed ==
    [][lifespan =>
        \A id \in SagaIds :
            saga_states[id].status \in {"started", "executing", "compensating"} =>
                saga_states'[id].status = "failed"]_vars

\* ------------------------------------------------ compensation claims
\* worker p's saga has just run the compensation of its reservation step,
\* and the store answered the release
Compensates(p) ==
    /\ pc[p] = "compensate" /\ pc'[p] = "idle"
    /\ saga'[p].step_status[1] = "compensated"
    /\ ~saga'[p].comp_failed

\* C29: the compensation of a booking-saga step, run once more on the
\* stores it has just compensated, changes nothing: the release deletes no
\* further key, and no compensation writes the durable store.
C29_CompensationIdempotent ==
    [][\A p \in Procs : Compensates(p) =>
        /\ ReleaseScript(fast', req[p].event, req[p].seat_ids, req[p].user).store = fast'
        /\ seats' = seats
        /\ bookings' = bookings]_vars

\* C29 witness: a saga that held two seats has compensated its
\* reservation step and the two keys are gone.
C29_Witness ==
    \E p \in Procs :
        /\ pc[p] = "idle" /\ req[p].op = "create"
        /\ saga[p].step_status[1] = "compensated"
        /\ ~saga[p].comp_failed
        /\ Len(req[p].seat_ids) = 2
        /\ \A s \in Range(req[p].seat_ids) : fast[Key(req[p].event, s)] = NoKey

\* ------------------------------------------------ circuit breaker claims
Closed == circuit_breaker.state = "CLOSED"
Opens == circuit_breaker.state # "OPEN" /\ circuit_breaker'.state = "OPEN"
Records == \E c \in Callers : pc[c] = "called" /\ pc'[c] = "idle"

\* C31: a closed breaker has fewer than failureThreshold failures recorded
\* since the last recorded success, and a step takes it to open exactly when
\* it records the failure that makes them failureThreshold; a recorded
\* success puts the count back to zero and leaves the breaker closed.
C31_OpensAtThreshold ==
    [][Closed =>
         /\ ret.failures < FailureThreshold
         /\ circuit_breaker.failure_count = ret.failures
         /\ (circuit_breaker'.state = "OPEN" <=>
                Records /\ ret'.failures = FailureThreshold /\ ret.failures = FailureThreshold - 1)
         /\ (circuit_breaker'.state # "OPEN" => circuit_breaker'.state = "CLOSED")
         /\ (Records /\ ret'.failures = 0 => circuit_breaker'.failure_count = 0)]_vars

\* the breaker has just opened from closed, on the failure that followed
\* failureThreshold - 1 others and some earlier success
C31_Witness ==
    /\ circuit_breaker.state = "OPEN"
    /\ ret.failures = FailureThreshold
    /\ circuit_breaker.failure_count = FailureThreshold
    /\ ret.period = 0
    /\ ret.invoked > FailureThreshold
    /\ \A c \in Callers : pc[c] = "idle"

Open == circuit_breaker.state = "OPEN"
TimeoutElapsed == now - ret.opened_at >= RecoveryTimeout
Arrives == ret'.n = ret.n + 1

\* C32: an open breaker stays open until recoveryTimeout has passed since
\* it opened: a call arriving before that raises at once and its function is
\* not invoked, the completion of a call admitted earlier leaves the breaker
\* open, and the only state it moves to afterwards is half-open.
C32_OpenUntilTimeout ==
    [][Open =>
         /\ circuit_breaker'.state \in {"OPEN", "HALF_OPEN"}
         /\ (circuit_breaker'.state = "HALF_OPEN" => TimeoutElapsed)
         /\ (Arrives /\ ~TimeoutElapsed => ret'.raised /\ ret'.invoked = ret.invoked)]_vars

HalfOpen == circuit_breaker.state = "HALF_OPEN"
\* the calls admitted as probes since the breaker last became half-open;
\* none of them has finished, for a recorded outcome ends the half-open state
Probes == {c \in Callers : pc[c] = "called" /\ req[c].probe /\ req[c].period = ret.period}

\* C33: while the breaker is half-open at most halfOpenMaxCalls calls have
\* been admitted as probes, whatever the order callers arrive in; a call
\* arriving after that raises at once; an outcome recorded while half-open
\* closes the breaker with failure_count and half_open_calls at zero if it is
\* a success and opens it again if it is a failure.
C33_HalfOpenProbes ==
    [][/\ (HalfOpen => Cardinality(Probes) <= HalfOpenMaxCalls)
       /\ (HalfOpen /\ Cardinality(Probes) = HalfOpenMaxCalls /\ Arrives =>
              ret'.raised /\ ret'.invoked = ret.invoked /\ circuit_breaker'.state = "HALF_OPEN")
       /\ (HalfOpen /\ Records =>
              IF ret'.raised
              THEN circuit_breaker'.state = "OPEN"
              ELSE /\ circuit_breaker'.state = "CLOSED"
                   /\ circuit_breaker'.failure_count = 0
                   /\ circuit_breaker'.half_open_calls = 0)]_vars

\* halfOpenMaxCalls probes are in flight and a further caller has just been
\* turned away
C33_Witness ==
    /\ HalfOpen
    /\ Cardinality(Probes) = HalfOpenMaxCalls
    /\ ret.raised
    /\ \E c \in Callers : pc[c] = "idle"

\* ------------------------------------------------ creation terminates
\* the answers of create_booking: success, SeatsUnavailable,
\* ReservationUnavailable, RateLimited, Internal
Classified == {200, 409, 423, 429, 500}
Answered(p) == pc[p] = "idle" /\ resp[p].code # 0
Waiting(p) ==
    /\ pc[p] = "step2"
    /\ Cardinality(LockedRows(p)) < Len(LockOrder(p))
    /\ rowLock[LockOrder(p)[Cardinality(LockedRows(p)) + 1]] \notin {0, p}

\* C34: every CreateBooking call that has started is answered in the end,
\* with a success or a classified error, whatever seat lists the concurrent
\* calls give and in whatever order; no set of calls waits for row locks in
\* a circle.
C34_CreationTerminates ==
    /\ \A p \in Procs : (pc[p] # "idle") ~> Answered(p)
    /\ [](\A p \in Procs : Answered(p) => resp[p].code \in Classified)
    /\ [](\E p \in Procs : Waiting(p) => \E q \in Procs : pc[q] = "step2" /\ ~Waiting(q))

\* a call waits for the event row while the other holds it together with a
\* seat row both asked for, the two having listed their seats in opposite
\* orders
C34_Witness ==
    \E p, q \in Procs :
        /\ Waiting(p)
        /\ SeatRow(1) \in LockedRows(q)
        /\ EventRow("E1") \in LockedRows(q)
        /\ Range(req[p].seat_ids) = Seats
        /\ Range(req[q].seat_ids) = Seats

\* ------------------------------------------------ cache coherence
CachedRead(p) == pc[p] = "idle" /\ ncreate' = ncreate - 1 /\ resp'[p].cached
MutationPending == \E p \in Procs : pc[p] \in {"invalidate", "delete"}

\* C35: once every committed mutation of the event row has run its
\* invalidation, a list read answered from the cache returns what the list
\* query selects from the committed rows.
C35_CachedReadsReflectMutation ==
    [][\A p \in Procs :
          CachedRead(p) /\ nops < MaxMutations /\ ~MutationPending =>
              resp'[p].data = Query(req'[p].param)]_vars

\* ------------------------------------------------ saga memory discipline
Ended(id) == ret[id] # None

\* C36: a saga whose execute_saga has returned, however it ended, is in
\* neither the saga map nor the cleanup registry, and the registry always
\* holds exactly the ids of the map.
C36_SagaMemoryDiscipline ==
    /\ \A id \in RunIds :
          Ended(id) => id \notin exec.active_sagas /\ id \notin exec.saga_cleanup_registry
    /\ exec.saga_cleanup_registry = exec.active_sagas

\* one saga has ended in each of the three ways while another is executing
C36_Witness ==
    /\ \A how \in Endings : \E id \in RunIds : ret[id] = how
    /\ \E p \in Procs : pc[p] = "executing" /\ req[p].call \in exec.active_sagas

\* ------------------------------------------------ concurrency gauge
InFlightOperations == {p \in Procs : pc[p] = "tracked"}

\* C37: the gauge of concurrent bookings equals the number of tracked
\* operations in flight, is never negative, and the running maximum is
\* never below it.
C37_GaugeCountsInFlight ==
    /\ ret.concurrent_bookings = Cardinality(InFlightOperations)
    /\ ret.concurrent_bookings >= 0
    /\ ret.max_concurrent_bookings >= ret.concurrent_bookings

\* ------------------------------------------------ status consistency
SeatsOf(statuses) ==
    UNION {bookings[b].seat_ids : b \in {i \in 1..Len(bookings) : bookings[i].status \in statuses}}

\* C38: in every committed state each seat of a pending booking is reserved
\* and reserved_by is the booking's user, each seat of a confirmed booking
\* is booked, and an available seat has reserved_by and reserved_at unset
\* and belongs to no pending or confirmed booking.
C38_StatusesConsistent ==
    /\ \A b \in 1..Len(bookings) : \A s \in bookings[b].seat_ids :
          /\ bookings[b].status = "pending" =>
                seats[s].status = "reserved" /\ seats[s].reserved_by = bookings[b].user
          /\ bookings[b].status = "confirmed" => seats[s].status = "booked"
    /\ \A s \in Seats : seats[s].status = "available" =>
          /\ seats[s].reserved_by = None
          /\ seats[s].reserved_at = Null
          /\ s \notin SeatsOf(ActiveStatuses)

\* a pending booking, and beside it a seat made available again when the
\* booking that held it was cancelled or expired
C38_Witness ==
    /\ \E b \in 1..Len(bookings) : bookings[b].status = "pending"
    /\ \E b \in 1..Len(bookings) :
          /\ bookings[b].status \in {"cancelled", "expired"}
          /\ \E s \in bookings[b].seat_ids : seats[s].status = "available"

\* ------------------------------------------------ release of own attempt
\* the soft reservations a release step of p deletes
DeletedBy(p) ==
    {k \in Keys : /\ pc[p] \in {"compensate", "confirm_release", "cancel_release"}
                  /\ pc'[p] # pc[p]
                  /\ fast[k] # NoKey /\ fast'[k] = NoKey}
\* the CreateBooking call whose saga is between its two steps and made key k
BetweenSteps(k) == \E q \in Procs : pc[q] = "step2" /\ req[q].call = fast[k].by

\* C39: a fast-store release deletes only the soft reservations of its own
\* booking attempt: a compensation only keys its own saga set, and the
\* release of a confirm or cancel no key set by a saga that is still
\* between its reservation step and its durable step.
C39_ReleasesOwnAttemptOnly ==
    [][\A p \in Procs : \A k \in DeletedBy(p) :
          IF pc[p] = "compensate"
          THEN fast[k].by = req[p].call
          ELSE ~BetweenSteps(k)]_vars

\* ------------------------------------------------ abandoned bookings
\* the pending bookings past their expiration that hold seat s
AbandonedHolding(s) ==
    {b \in 1..Len(bookings) : /\ bookings[b].status = "pending"
                              /\ now > bookings[b].expires_at
                              /\ s \in bookings[b].seat_ids}
\* an attempt of the durable step of p's saga finds seats unavailable
FindsUnavailable(p) ==
    /\ pc[p] = "step2"
    /\ saga'[p].retry_count[2] = saga[p].retry_count[2] + 1
    /\ saga'[p].step_error = "seats_no_longer_available"

\* C40: a pending booking past its expiration whose owner stays away does
\* not keep its seats from others: once the soft reservation has lapsed
\* too, the durable step of another user's CreateBooking does not find
\* those seats unavailable.
C40_AbandonedSeatsBecomeAvailable ==
    [][\A p \in Procs : FindsUnavailable(p) =>
          \A s \in saga'[p].error_seats :
              \A b \in AbandonedHolding(s) : bookings[b].user = req[p].user]_vars
====
